---- MODULE Spec2Model ----
(***************************************************************************)
(* Career decision model of the career-guidance assistant:                 *)
(*   app/game_theory/career_game_model.py  (payoff table, scoring engine,  *)
(*                                           response-to-table adapter)    *)
(*   app/ui_streamlit.py                   (the per-session UI actions)    *)
(*   app/pipeline.py                       (the legacy pipeline)           *)
(*   app/utils/db_handler.py               (the session store)             *)
(*                                                                         *)
(* Strings that the code splits, lower-cases, title-cases or searches are  *)
(* sequences of word tokens: "Software Engineer" is <<"Software",          *)
(* "Engineer">>.  A Python dict is a sequence of [name, vec] entries in    *)
(* insertion order with pairwise different names.  Python objects that a   *)
(* model refers to (dicts and lists) live in `heap`; a model holds         *)
(* references, as the code does.                                           *)
(***************************************************************************)
EXTENDS Integers, Sequences, FiniteSets, TLC

VARIABLES
    heap,      \* reference -> dict or list object
    models,    \* model id -> [career_matrix |-> ref, criteria_labels |-> ref]
    history,   \* session id -> chat history (st.session_state.history)
    ret,       \* what the last call did: its name, arguments and outcome
    text,      \* the response text handed to the adapter (adapter runs)
    store,     \* user id -> the session data saved for it (the table `sessions`);
               \* in StoreSpec the rows themselves, as the JSON written to them
    pc,        \* position of the run
    set_order  \* set of strings -> the order this run of the interpreter iterates it in

vars == <<heap, models, history, ret, text, store, pc, set_order>>

----------------------------------------------------------------------------
(* Bounds of the model.                                                    *)

MaxOptions == 2      \* options of a table drawn as an input
MaxLen == 2          \* length of a score vector drawn as an input
MaxCriteria == 7     \* criteria of the widest table drawn as an input
MaxWords == 3        \* words of a response text drawn as an input
MaxGiven == 1        \* criteria a payload scores one career on
MaxHistory == 2      \* exchanges of a session

----------------------------------------------------------------------------
(* Generic helpers.                                                        *)

Range(s) == {s[i] : i \in 1..Len(s)}

RECURSIVE SeqSum(_)
SeqSum(s) == IF s = <<>> THEN 0 ELSE Head(s) + SeqSum(Tail(s))

\* (a faulty variant of SeqMin: the first element)
SeqFirst(s) == s[1]

\* min / max of a non-empty sequence of integers
SeqMin(s) == CHOOSE x \in Range(s) : \A y \in Range(s) : x <= y
SeqMax(s) == CHOOSE x \in Range(s) : \A y \in Range(s) : x >= y

\* sequences over S of length lo..hi
SeqsOf(S, lo, hi) == UNION {[1..n -> S] : n \in lo..hi}

\* sequences without repetition over S of length 0..n
InjSeqs(S, n) ==
    {s \in SeqsOf(S, 0, n) : \A i, j \in 1..Len(s) : i # j => s[i] # s[j]}

----------------------------------------------------------------------------
(* Python dict, insertion ordered.                                         *)

Keys(d) == [i \in 1..Len(d) |-> d[i].name]
Values(d) == [i \in 1..Len(d) |-> d[i].vec]
HasKey(d, k) == \E i \in 1..Len(d) : d[i].name = k
DictGet(d, k) == d[CHOOSE i \in 1..Len(d) : d[i].name = k].vec
\* d[k] = v : an existing key keeps its place, a new key goes last
DictSet(d, k, v) ==
    IF HasKey(d, k)
    THEN [i \in 1..Len(d) |-> IF d[i].name = k THEN [name |-> k, vec |-> v] ELSE d[i]]
    ELSE Append(d, [name |-> k, vec |-> v])

\* an optional argument: omitted (None) or given
None == [given |-> FALSE, val |-> <<>>]
Some(v) == [given |-> TRUE, val |-> v]
\* Python truth value of an optional dict or list: None and empty are false
Truthy(arg) == arg.given /\ Len(arg.val) > 0

----------------------------------------------------------------------------
(* IEEE-754 binary64 arithmetic, as numpy's float64 and Python's float do  *)
(* it, for the values the statistics need: an integer, the quotient of an  *)
(* integer by a positive count, and the product of such a quotient with a  *)
(* count.  A float is its sign and, unless zero, a mantissa of             *)
(* MantissaBits bits with the top bit set, held as three limbs (hi: the    *)
(* top 17 bits, mid and lo: 18 bits each, so that every intermediate       *)
(* product stays below 2^31), and the binary exponent of the mantissa's    *)
(* last bit.  Operands are below MaxMagnitude, as the scores of a table    *)
(* and the number of its criteria are.                                     *)

MantissaBits == 53
LimbBits == (MantissaBits - 17) \div 2
Limb == 2^LimbBits
HiLimb == 2^(MantissaBits - 2 * LimbBits)
MaxMagnitude == 2^12

Abs(x) == IF x < 0 THEN -x ELSE x

\* number of bits of a >= 1
BitLen(a) == CHOOSE n \in 1..31 : 2^(n - 1) <= a /\ (n = 31 \/ a < 2^n)

FloatZero == [neg |-> FALSE, zero |-> TRUE, hi |-> 0, mid |-> 0, lo |-> 0, exp |-> 0]

\* round-to-nearest, ties-to-even: the mantissa (hi, mid, lo) * 2^e plus a dropped
\* fraction of its last bit that is above a half (up) or exactly a half (tie)
RoundMantissa(neg, hi, mid, lo, e, up, tie) ==
    LET inc  == up \/ (tie /\ lo % 2 = 1)
        lo2  == IF inc THEN lo + 1 ELSE lo
        mid2 == IF lo2 = Limb THEN mid + 1 ELSE mid
        hi2  == IF mid2 = Limb THEN hi + 1 ELSE hi
    IN  IF hi2 = HiLimb
        THEN \* the carry ran out of the top: 1.00..0 * 2^(e + 1)
             [neg |-> neg, zero |-> FALSE, hi |-> HiLimb \div 2, mid |-> 0, lo |-> 0,
              exp |-> e + 1]
        ELSE [neg |-> neg, zero |-> FALSE, hi |-> hi2, mid |-> mid2 % Limb,
              lo |-> lo2 % Limb, exp |-> e]

\* float(t) of an integer t, exact for |t| < MaxMagnitude
FloatOfInt(t) ==
    IF t = 0 THEN FloatZero
    ELSE LET n == BitLen(Abs(t))
         IN  [neg |-> t < 0, zero |-> FALSE,
              hi |-> Abs(t) * 2^((MantissaBits - 2 * LimbBits) - n), mid |-> 0, lo |-> 0,
              exp |-> n - MantissaBits]

\* float(t) / m, correctly rounded, for an integer t and a count m >= 1:
\* long division of n by d, where d <= n < 2d and |t| / m = (n / d) * 2^k
FloatDivInt(t, m) ==
    IF t = 0 THEN FloatZero
    ELSE LET a   == Abs(t)
             k   == BitLen(a) - BitLen(m) - (IF a * 2^BitLen(m) < m * 2^BitLen(a) THEN 1 ELSE 0)
             n   == IF k < 0 THEN a * 2^(-k) ELSE a
             d   == IF k > 0 THEN m * 2^k ELSE m
             n1  == n * (HiLimb \div 2)
             hi  == n1 \div d
             n2  == (n1 % d) * Limb
             mid == n2 \div d
             n3  == (n2 % d) * Limb
             lo  == n3 \div d
             rem == n3 % d
         IN  RoundMantissa(t < 0, hi, mid, lo, k - (MantissaBits - 1),
                           2 * rem > d, 2 * rem = d)

\* f * m, correctly rounded, for a float f and a count m >= 1: the exact product
\* limb by limb, then the x excess bits shifted out and rounded
FloatMulInt(f, m) ==
    IF f.zero THEN FloatZero
    ELSE LET plo  == f.lo * m
             pmid == f.mid * m + plo \div Limb
             phi  == f.hi * m + pmid \div Limb
             l0   == plo % Limb
             l1   == pmid % Limb
             x    == BitLen(phi) - (MantissaBits - 2 * LimbBits)
             out  == l0 % 2^x
         IN  RoundMantissa(f.neg,
                           phi \div 2^x,
                           ((phi % 2^x) * Limb + l1) \div 2^x,
                           ((l1 % 2^x) * Limb + l0) \div 2^x,
                           f.exp + x,
                           x > 0 /\ 2 * out > 2^x,
                           x > 0 /\ 2 * out = 2^x)

\* x < y and x <= y on floats
MagLess(x, y) ==
    \/ x.exp < y.exp
    \/ x.exp = y.exp /\ x.hi < y.hi
    \/ x.exp = y.exp /\ x.hi = y.hi /\ x.mid < y.mid
    \/ x.exp = y.exp /\ x.hi = y.hi /\ x.mid = y.mid /\ x.lo < y.lo
FloatLess(x, y) ==
    IF x.zero THEN ~y.zero /\ ~y.neg
    ELSE IF y.zero THEN x.neg
    ELSE IF x.neg # y.neg THEN x.neg
    ELSE IF x.neg THEN MagLess(y, x) ELSE MagLess(x, y)
FloatLeq(x, y) == x = y \/ FloatLess(x, y)

----------------------------------------------------------------------------
(* Module-level data of career_game_model.py.                              *)

DEFAULT_CAREER_MATRIX ==
    << [name |-> <<"Software", "Engineer">>, vec |-> <<9, 6, 7, 6, 6>>],
       [name |-> <<"Data", "Scientist">>,    vec |-> <<8, 7, 8, 5, 6>>],
       [name |-> <<"MBA">>,                  vec |-> <<6, 5, 9, 3, 9>>],
       [name |-> <<"UX", "Designer">>,       vec |-> <<7, 6, 6, 7, 7>>],
       [name |-> <<"Entrepreneur">>,         vec |-> <<9, 3, 10, 2, 4>>],
       [name |-> <<"Researcher", "(PhD)">>,  vec |-> <<5, 8, 6, 7, 2>>] >>

DEFAULT_CRITERIA_LABELS ==
    << <<"Salary">>, <<"Stability">>, <<"Growth">>, <<"Risk-Resistance">>,
       <<"Ease", "of", "Education">> >>

(* The objects a model can refer to: the two module-level defaults, shared *)
(* by every model that was given nothing else, and the dict and the list   *)
(* that a caller handed to one model.                                      *)
ModelIds == {"session1", "session2", "_global_model"}
DefaultMatrixRef == <<"module", "DEFAULT_CAREER_MATRIX">>
DefaultLabelsRef == <<"module", "DEFAULT_CRITERIA_LABELS">>
OwnMatrixRef(id) == <<id, "career_matrix">>
OwnLabelsRef(id) == <<id, "criteria_labels">>
Refs == {DefaultMatrixRef, DefaultLabelsRef}
            \cup {OwnMatrixRef(id) : id \in ModelIds}
            \cup {OwnLabelsRef(id) : id \in ModelIds}

\* the heap once the module is imported; a slot nothing refers to is empty
InitialHeap ==
    [r \in Refs |-> IF r = DefaultMatrixRef THEN DEFAULT_CAREER_MATRIX
                    ELSE IF r = DefaultLabelsRef THEN DEFAULT_CRITERIA_LABELS
                    ELSE <<>>]

\* self.career_matrix and self.criteria_labels of a model, read through the heap
MatrixOf(h, model) == h[model.career_matrix]
LabelsOf(h, model) == h[model.criteria_labels]

----------------------------------------------------------------------------
(* class CareerGameModel.  A constructor or an update returns the new heap *)
(* and the new model: [heap |-> ..., model |-> ...].                       *)

\* (a faulty variant of CareerGameModelInit: a model given options and no labels has no
\* labels)
CareerGameModelInitUnlabelled(h, id, career_matrix, criteria_labels) ==
    LET ownM == Truthy(career_matrix)
        ownL == Truthy(criteria_labels) \/ ownM
    IN  [heap  |-> [h EXCEPT ![OwnMatrixRef(id)] = IF ownM THEN career_matrix.val ELSE <<>>,
                             ![OwnLabelsRef(id)] =
                                 IF Truthy(criteria_labels) THEN criteria_labels.val ELSE <<>>],
         model |-> [career_matrix   |-> IF ownM THEN OwnMatrixRef(id) ELSE DefaultMatrixRef,
                    criteria_labels |-> IF ownL THEN OwnLabelsRef(id) ELSE DefaultLabelsRef]]

\* CareerGameModel.__init__(career_matrix=None, criteria_labels=None)
CareerGameModelInit(h, id, career_matrix, criteria_labels) ==
    LET ownM == Truthy(career_matrix)      \* career_matrix or DEFAULT_CAREER_MATRIX
        ownL == Truthy(criteria_labels)    \* criteria_labels or DEFAULT_CRITERIA_LABELS
    IN  [heap  |-> [h EXCEPT ![OwnMatrixRef(id)] = IF ownM THEN career_matrix.val ELSE <<>>,
                             ![OwnLabelsRef(id)] = IF ownL THEN criteria_labels.val ELSE <<>>],
         model |-> [career_matrix   |-> IF ownM THEN OwnMatrixRef(id) ELSE DefaultMatrixRef,
                    criteria_labels |-> IF ownL THEN OwnLabelsRef(id) ELSE DefaultLabelsRef]]

\* (a faulty variant of UpdateCareerMatrix: the new labels are added to the old ones)
UpdateCareerMatrixExtending(h, id, model, career_matrix, criteria_labels) ==
    [heap  |-> [h EXCEPT ![OwnMatrixRef(id)] = career_matrix,
                         ![OwnLabelsRef(id)] = LabelsOf(h, model) \o criteria_labels.val],
     model |-> [career_matrix |-> OwnMatrixRef(id), criteria_labels |-> OwnLabelsRef(id)]]

\* CareerGameModel.update_career_matrix(career_matrix, criteria_labels=None)
UpdateCareerMatrix(h, id, model, career_matrix, criteria_labels) ==
    LET newL == Truthy(criteria_labels)    \* if criteria_labels:
    IN  [heap  |-> [h EXCEPT ![OwnMatrixRef(id)] = career_matrix,
                             ![OwnLabelsRef(id)] =
                                 IF newL THEN criteria_labels.val ELSE h[OwnLabelsRef(id)]],
         model |-> [career_matrix   |-> OwnMatrixRef(id),
                    criteria_labels |-> IF newL THEN OwnLabelsRef(id)
                                        ELSE model.criteria_labels]]

(* numpy.array(rows) of a list of lists of numbers: no row gives a         *)
(* one-dimensional array of shape (0,); rows of one length L give shape    *)
(* (n, L); rows of different lengths give no matrix either (an object      *)
(* array of one dimension, or a ValueError, by the numpy version).         *)
Ragged(rows) == \E i, j \in 1..Len(rows) : Len(rows[i]) # Len(rows[j])
NpArray(rows) ==
    [ndim |-> IF rows = <<>> \/ Ragged(rows) THEN 1 ELSE 2,
     ragged |-> Ragged(rows),
     rows |-> rows]

\* CareerGameModel.get_payoff_matrix
GetPayoffMatrix(h, model) ==
    [matrix |-> NpArray(Values(MatrixOf(h, model))), careers |-> Keys(MatrixOf(h, model))]

\* a reduction numpy refuses: axis 1 of an array without one (AxisError, or the
\* error of a ragged array), or min / max over rows of no element (ValueError)
AxisError(a) == a.ndim < 2
ZeroSizeError(a) == a.ndim = 2 /\ \E i \in 1..Len(a.rows) : Len(a.rows[i]) = 0

\* (faulty variants of ArgMax: numpy.argmin, and the index of the last greatest element)
ArgMin(v) == (CHOOSE i \in 1..Len(v) :
                 /\ \A j \in 1..Len(v) : v[j] >= v[i]
                 /\ \A j \in 1..(i - 1) : v[j] > v[i]) - 1
ArgMaxLast(v) == (CHOOSE i \in 1..Len(v) :
                     /\ \A j \in 1..Len(v) : v[j] <= v[i]
                     /\ \A j \in (i + 1)..Len(v) : v[j] < v[i]) - 1

\* numpy.argmax: the index (from 0) of the first greatest element
ArgMax(v) == (CHOOSE i \in 1..Len(v) :
                 /\ \A j \in 1..Len(v) : v[j] <= v[i]
                 /\ \A j \in 1..(i - 1) : v[j] < v[i]) - 1

Raised == [raised |-> TRUE]

\* CareerGameModel.calculate_strategy_scores
CalculateStrategyScores(h, model) ==
    LET a == GetPayoffMatrix(h, model).matrix
    IN  IF AxisError(a) \/ ZeroSizeError(a) THEN Raised     \* np.min(.., axis=1)
        ELSE LET worst_case_payoffs == [i \in 1..Len(a.rows) |-> SeqMin(a.rows[i])]
             IN  [raised |-> FALSE,
                  best_strategy_idx |-> ArgMax(worst_case_payoffs),
                  worst_case_payoffs |-> worst_case_payoffs]

\* (a faulty variant of RankingEntry: the mean by integer division)
RankingEntryFloorMean(career, row) ==
    [name |-> career,
     total_score |-> FloatOfInt(SeqSum(row)),
     average_score |-> FloatOfInt(SeqSum(row) \div Len(row)),
     worst_case_score |-> FloatOfInt(SeqMin(row)),
     best_case_score |-> FloatOfInt(SeqMax(row)),
     payoff_vector |-> row]

\* rankings[career] of get_career_rankings: float(sum), float(mean), float(min) and
\* float(max) of the career's row (of at least one score), and the row
RankingEntry(career, row) ==
    [name |-> career,
     total_score |-> FloatOfInt(SeqSum(row)),
     average_score |-> FloatDivInt(SeqSum(row), Len(row)),
     worst_case_score |-> FloatOfInt(SeqMin(row)),
     best_case_score |-> FloatOfInt(SeqMax(row)),
     payoff_vector |-> row]

\* (a faulty variant of GetCareerRankings: the rankings of the table the module
\* started with, kept from the first call)
GetCareerRankingsStale(h, model) ==
    [raised |-> FALSE,
     rankings |-> [i \in 1..Len(DEFAULT_CAREER_MATRIX) |->
                      RankingEntry(DEFAULT_CAREER_MATRIX[i].name,
                                   DEFAULT_CAREER_MATRIX[i].vec)]]

\* CareerGameModel.get_career_rankings: the dict of the per-career statistics, in
\* the order of the careers
GetCareerRankings(h, model) ==
    LET pm == GetPayoffMatrix(h, model)
        a  == pm.matrix
    IN  IF AxisError(a) THEN Raised          \* matrix.sum(axis=1)
        ELSE IF ZeroSizeError(a) THEN Raised \* matrix.min(axis=1)
        ELSE [raised |-> FALSE,
              rankings |-> [i \in 1..Len(a.rows) |-> RankingEntry(pm.careers[i], a.rows[i])]]

\* CareerGameModel.explain_game_theory_choice: the parts the text is formatted from
ExplainGameTheoryChoice(h, model) ==
    LET pm == GetPayoffMatrix(h, model)
        cs == CalculateStrategyScores(h, model)
    IN  IF cs.raised THEN Raised
        ELSE [raised |-> FALSE,
              n_criteria |-> Len(LabelsOf(h, model)),
              breakdown |-> [i \in 1..Len(pm.careers) |->
                               <<pm.careers[i], cs.worst_case_payoffs[i]>>],
              best_career |-> pm.careers[cs.best_strategy_idx + 1],
              best_score |-> cs.worst_case_payoffs[cs.best_strategy_idx + 1],
              criteria |-> LabelsOf(h, model)]

----------------------------------------------------------------------------
(* Words.  A text is the sequence of its words, in the order written, with *)
(* "\n" for a line break; words next to each other are one space apart.    *)
(* str.lower and str.title go by the table of the words the adapter can    *)
(* match or is given; len is the number of characters of the word.         *)

W(lower, title, len) == [lower |-> lower, title |-> title, len |-> len]

WordForms ==
    { W("software", "Software", 8), W("engineer", "Engineer", 8),
      W("data", "Data", 4), W("scientist", "Scientist", 9),
      W("product", "Product", 7), W("manager", "Manager", 7),
      W("consultant", "Consultant", 10), W("researcher", "Researcher", 10),
      W("analyst", "Analyst", 7), W("developer", "Developer", 9),
      W("designer", "Designer", 8), W("architect", "Architect", 9),
      W("specialist", "Specialist", 10),
      W("mba", "Mba", 3), W("phd", "Phd", 3),
      W("master's", "Master'S", 8), W("bachelor's", "Bachelor'S", 10),
      W("holder", "Holder", 6), W("graduate", "Graduate", 8),
      W("student", "Student", 7),
      W("marketing", "Marketing", 9), W("sales", "Sales", 5),
      W("finance", "Finance", 7), W("operations", "Operations", 10),
      W("strategy", "Strategy", 8), W("consulting", "Consulting", 10),
      W("role", "Role", 4), W("position", "Position", 8),
      W("career", "Career", 6), W("job", "Job", 3), W("careers", "Careers", 7),
      W("salary", "Salary", 6), W("potential", "Potential", 9),
      W("security", "Security", 8), W("growth", "Growth", 6),
      W("opportunity", "Opportunity", 11), W("work", "Work", 4),
      W("life", "Life", 4), W("balance", "Balance", 7),
      W("skill", "Skill", 5), W("transferability", "Transferability", 15),
      W("market", "Market", 6), W("demand", "Demand", 6),
      W("education", "Education", 9), W("barrier", "Barrier", 7),
      W("remote", "Remote", 6), W("flexibility", "Flexibility", 11),
      W("ai", "Ai", 2), W("ux", "Ux", 2), W("entrepreneur", "Entrepreneur", 12),
      W("teacher", "Teacher", 7), W("doctor", "Doctor", 6), W("lawyer", "Lawyer", 6),
      W("the", "The", 3), W("options", "Options", 7),
      W("i'm", "I'M", 3), W("comparing", "Comparing", 9), W("and", "And", 3),
      W("roles", "Roles", 5),
      W("career_matrix:", "Career_Matrix:", 14) }

\* words written in another way than lower case or title case
OtherForms == { <<"MBA", "mba">>, <<"PhD", "phd">>, <<"AI", "ai">>, <<"UX", "ux">>,
                <<"I'm", "i'm">>, <<"CAREER_MATRIX:", "career_matrix:">> }

\* str.lower, str.title and len of the words of the table, as functions
LowerOf ==
    [w \in {f.title : f \in WordForms} \cup {p[1] : p \in OtherForms} |->
        IF \E f \in WordForms : f.title = w
        THEN (CHOOSE f \in WordForms : f.title = w).lower
        ELSE (CHOOSE p \in OtherForms : p[1] = w)[2]]
TitleOf ==
    [w \in {f.lower : f \in WordForms} |-> (CHOOSE f \in WordForms : f.lower = w).title]
LenOf ==
    [w \in {f.lower : f \in WordForms} |-> (CHOOSE f \in WordForms : f.lower = w).len]

\* str.lower of a word
Lower(w) == IF w \in DOMAIN LowerOf THEN LowerOf[w] ELSE w

\* str.title of a word
Title(w) == IF Lower(w) \in DOMAIN TitleOf THEN TitleOf[Lower(w)] ELSE w

\* len of a word
WordLen(w) == IF Lower(w) \in DOMAIN LenOf THEN LenOf[Lower(w)] ELSE 1

\* str.lower, str.title and len of a string of words
LowerStr(s) == [i \in 1..Len(s) |-> Lower(s[i])]
TitleStr(s) == [i \in 1..Len(s) |-> Title(s[i])]
StrLen(s) == SeqSum([i \in 1..Len(s) |-> WordLen(s[i])]) + (Len(s) - 1)

\* `a in b` of two strings of words
Contained(a, b) ==
    \E i \in 1..(Len(b) - Len(a) + 1) : SubSeq(b, i, i + Len(a) - 1) = a

----------------------------------------------------------------------------
(* The response-to-table adapter of career_game_model.py.                  *)

\* criteria_order of parse_agent_response_text; a key is its words, joined by '_'
criteria_order ==
    << <<"salary", "potential">>, <<"job", "security">>, <<"growth", "opportunity">>,
       <<"work", "life", "balance">>, <<"skill", "transferability">>,
       <<"market", "demand">>, <<"education", "barrier">>, <<"remote", "flexibility">> >>

\* career_patterns[0] and [1] of extract_careers_from_text: the alternatives, in order
CareerPattern1 ==
    << <<"software", "engineer">>, <<"data", "scientist">>, <<"product", "manager">>,
       <<"consultant">>, <<"researcher">>, <<"analyst">> >>
CareerPattern2 ==
    << <<"developer">>, <<"designer">>, <<"manager">>, <<"scientist">>, <<"engineer">>,
       <<"architect">>, <<"specialist">> >>
\* career_patterns[2]: (a degree) .*? (its bearer), both captured
DegreeWords == {"mba", "phd", "master's", "bachelor's"}
BearerWords == {"holder", "graduate", "student"}
\* career_patterns[3]: (a field) .*? (?:role|position|career|job), the field captured;
\* the ending is not bounded by \b, so a word that holds it ends the match
FieldWords == {"marketing", "sales", "finance", "operations", "strategy", "consulting"}
EndingWords == {"role", "position", "career", "job", "roles", "careers", "career_matrix:"}

\* the alternative matched at word i of ws, if any
MatchesAt(ws, i, alts) ==
    {k \in 1..Len(alts) : /\ i + Len(alts[k]) - 1 <= Len(ws)
                          /\ SubSeq(ws, i, i + Len(alts[k]) - 1) = alts[k]}

\* re.findall of an alternation of phrases between \b: the matches from word i on,
\* left to right, not overlapping, at each place the first alternative that matches
RECURSIVE FindAllPhrases(_, _, _)
FindAllPhrases(ws, i, alts) ==
    IF i > Len(ws) THEN <<>>
    ELSE IF MatchesAt(ws, i, alts) = {} THEN FindAllPhrases(ws, i + 1, alts)
    ELSE LET k == CHOOSE k \in MatchesAt(ws, i, alts) :
                      \A l \in MatchesAt(ws, i, alts) : k <= l
         IN  <<alts[k]>> \o FindAllPhrases(ws, i + Len(alts[k]), alts)

\* the place where (head) .*? (end) that starts at word i ends: the first later word
\* of the line that is an end; 0 when the line has none
EndOfSpan(ws, i, ends) ==
    LET js == {j \in (i + 1)..Len(ws) :
                  /\ ws[j] \in ends
                  /\ \A l \in (i + 1)..j : ws[l] # "\n"}
    IN  IF js = {} THEN 0 ELSE CHOOSE j \in js : \A l \in js : j <= l

\* re.findall of (head) .*? (end): the pairs <<head word, end word>> from word i on
RECURSIVE FindAllSpans(_, _, _, _)
FindAllSpans(ws, i, heads, ends) ==
    IF i > Len(ws) THEN <<>>
    ELSE IF ws[i] \in heads /\ EndOfSpan(ws, i, ends) # 0
    THEN <<[head |-> ws[i], end |-> ws[EndOfSpan(ws, i, ends)]]>>
            \o FindAllSpans(ws, EndOfSpan(ws, i, ends) + 1, heads, ends)
    ELSE FindAllSpans(ws, i + 1, heads, ends)

\* careers_found of extract_careers_from_text: the set of the strings matched
CareersFound(words) ==
    LET text_lower == LowerStr(words)
        degrees == FindAllSpans(text_lower, 1, DegreeWords, BearerWords)
        fields  == FindAllSpans(text_lower, 1, FieldWords, EndingWords)
    IN  Range(FindAllPhrases(text_lower, 1, CareerPattern1))
        \cup Range(FindAllPhrases(text_lower, 1, CareerPattern2))
        \cup UNION {{<<degrees[n].head>>, <<degrees[n].end>>} : n \in 1..Len(degrees)}
        \cup {<<fields[n].head>> : n \in 1..Len(fields)}

\* formatted_careers: the names of more than two characters, title-cased, each once,
\* in the order the set is iterated in
RECURSIVE FormatCareers(_, _)
FormatCareers(order, formatted_careers) ==
    IF order = <<>> THEN formatted_careers
    ELSE LET career == Head(order)
             formatted_career == TitleStr(career)    \* no '_' in a match to replace
         IN  FormatCareers(Tail(order),
                 IF StrLen(career) > 2 /\ formatted_career \notin Range(formatted_careers)
                 THEN Append(formatted_careers, formatted_career)
                 ELSE formatted_careers)

\* the sequences that hold each element of a set once
RECURSIVE Arrangements(_)
Arrangements(S) ==
    IF S = {} THEN {<<>>}
    ELSE UNION {{<<x>> \o order : order \in Arrangements(S \ {x})} : x \in S}

\* the orders a set of strings can be iterated in: the hashes of the strings decide,
\* and they are salted anew for every run of the interpreter; within the run the
\* order of a set is fixed
Orders(S) == IF S \in DOMAIN set_order THEN {set_order[S]} ELSE Arrangements(S)

\* extract_careers_from_text: the lists it can return, one for each order the set
\* can be iterated in
ExtractCareersFromText(words) ==
    LET careers_found == CareersFound(words)
    IN  { LET formatted_careers == FormatCareers(order, <<>>)
          IN  SubSeq(formatted_careers, 1,
                     IF Len(formatted_careers) < 6 THEN Len(formatted_careers) ELSE 6)
          : order \in Orders(careers_found) }

\* career_defaults of create_basic_matrix_from_mentions, in the order of the dict
career_defaults ==
    << [name |-> <<"software", "engineer">>, vec |-> <<9, 8, 8, 7, 8, 9, 6, 9>>],
       [name |-> <<"data", "scientist">>,    vec |-> <<8, 7, 9, 6, 8, 8, 5, 8>>],
       [name |-> <<"product", "manager">>,   vec |-> <<8, 7, 8, 6, 9, 8, 7, 7>>],
       [name |-> <<"consultant">>,           vec |-> <<7, 6, 7, 4, 9, 6, 6, 6>>],
       [name |-> <<"researcher">>,           vec |-> <<6, 8, 6, 8, 7, 5, 4, 7>>],
       [name |-> <<"analyst">>,              vec |-> <<6, 7, 6, 7, 7, 7, 7, 6>>],
       [name |-> <<"designer">>,             vec |-> <<6, 6, 7, 7, 7, 7, 6, 8>>],
       [name |-> <<"manager">>,              vec |-> <<7, 7, 8, 5, 8, 7, 8, 6>>],
       [name |-> <<"developer">>,            vec |-> <<8, 7, 7, 7, 7, 8, 6, 8>>],
       [name |-> <<"architect">>,            vec |-> <<9, 8, 7, 6, 8, 7, 5, 7>>] >>

\* (a faulty variant of BasicCriteriaLabels: the fourth label written with a hyphen)
BasicCriteriaLabelsHyphen ==
    << <<"Salary", "Potential">>, <<"Job", "Security">>, <<"Growth", "Opportunity">>,
       <<"Work-Life", "Balance">>, <<"Skill", "Transferability">>,
       <<"Market", "Demand">>, <<"Education", "Barrier">>, <<"Remote", "Flexibility">> >>

\* the labels create_basic_matrix_from_mentions returns
BasicCriteriaLabels ==
    << <<"Salary", "Potential">>, <<"Job", "Security">>, <<"Growth", "Opportunity">>,
       <<"Work", "Life", "Balance">>, <<"Skill", "Transferability">>,
       <<"Market", "Demand">>, <<"Education", "Barrier">>, <<"Remote", "Flexibility">> >>

\* the vector create_basic_matrix_from_mentions gives a career: that of the first
\* default whose key is in the career's lower-cased name or holds it, else all 6
BasicVector(career) ==
    LET career_key == LowerStr(career)
        matches == {k \in 1..Len(career_defaults) :
                       \/ Contained(career_defaults[k].name, career_key)
                       \/ Contained(career_key, career_defaults[k].name)}
    IN  IF matches # {}
        THEN career_defaults[CHOOSE k \in matches : \A l \in matches : k <= l].vec
        ELSE <<6, 6, 6, 6, 6, 6, 6, 6>>

RECURSIVE BasicMatrix(_, _)
BasicMatrix(career_mentions, career_matrix) ==
    IF career_mentions = <<>> THEN career_matrix
    ELSE BasicMatrix(Tail(career_mentions),
                     DictSet(career_matrix, Head(career_mentions),
                             BasicVector(Head(career_mentions))))

\* create_basic_matrix_from_mentions
CreateBasicMatrixFromMentions(career_mentions) ==
    [career_matrix |-> BasicMatrix(career_mentions, <<>>),
     criteria_labels |-> BasicCriteriaLabels]

(* What json.loads makes of the text between the fences of the tagged      *)
(* block.  kind: "absent" (the text has no tagged block), "invalid" (not   *)
(* JSON), "number", "string", "null", "bool", "list" or "object"; items:   *)
(* the words of a string, the strings of a list, the keys of an object     *)
(* other than 'careers'; careers: the value of the key 'careers' of an     *)
(* object, with kind "absent" when the object has no such key, and, when   *)
(* it is an object itself, its entries [name, kind, scores] in the order   *)
(* written, scores being the pairs [key, score] of an entry that is an     *)
(* object; weights: the pairs [key, weight] of the value of the key        *)
(* 'criteria_weights' of an object that has it (the weight in hundredths). *)
NoCareers == [kind |-> "absent", entries |-> <<>>]
Json(kind, items, careers) ==
    [kind |-> kind, items |-> items, careers |-> careers, weights |-> <<>>]
NoBlock == Json("absent", <<>>, NoCareers)
\* the object with the key 'criteria_weights' added after its other keys
WithWeights(object, weights) ==
    [object EXCEPT !.items = Append(@, "criteria_weights"), !.weights = weights]

\* scores.get(criterion, 5)
ScoresGet(scores, criterion, default) ==
    IF \E n \in 1..Len(scores) : scores[n].key = criterion
    THEN scores[CHOOSE n \in 1..Len(scores) : scores[n].key = criterion].score
    ELSE default

\* the words of a list of strings, one after the other
RECURSIVE Flatten(_)
Flatten(strs) == IF strs = <<>> THEN <<>> ELSE Head(strs) \o Flatten(Tail(strs))

\* the words of the whole response text: those written before the block, then the
\* tag and the strings of the block (the key 'careers' and the names under it too)
WordsOf(response_text) ==
    IF response_text.block.kind = "absent" THEN response_text.words
    ELSE response_text.words \o <<"CAREER_MATRIX:">> \o response_text.block.items
         \o (IF response_text.block.careers.kind = "absent" THEN <<>>
             ELSE <<"careers">>
                  \o Flatten([n \in 1..Len(response_text.block.careers.entries) |->
                                 response_text.block.careers.entries[n].name]))

\* what a call of the adapter comes to: an exception, None, or the dict
Raises(exception) == [raised |-> TRUE, exception |-> exception, result |-> None]
Returns(result) == [raised |-> FALSE, exception |-> "", result |-> result]

\* the fallback of parse_agent_response_text: the tables it can return
TextFallback(response_text) ==
    { IF career_mentions # <<>>
      THEN Returns(Some(CreateBasicMatrixFromMentions(career_mentions)))
      ELSE Returns(None)
      : career_mentions \in ExtractCareersFromText(WordsOf(response_text)) }

\* the primary path: the table of a 'careers' object whose entries are objects
PrimaryTable(careers) ==
    [career_matrix |->
        [n \in 1..Len(careers.entries) |->
            [name |-> careers.entries[n].name,
             vec  |-> [k \in 1..Len(criteria_order) |->
                          ScoresGet(careers.entries[n].scores, criteria_order[k], 5)]]],
     criteria_labels |-> [k \in 1..Len(criteria_order) |-> TitleStr(criteria_order[k])]]

\* (a faulty variant of ParseAgentResponseText: the table of a payload with every score
\* multiplied by the weight of its criterion)
ParseAgentResponseTextWeighted(response_text) ==
    LET block == response_text.block
        primary == PrimaryTable(block.careers)
        WeightOf(key) ==
            IF \E n \in 1..Len(block.weights) : block.weights[n].key = key
            THEN block.weights[CHOOSE n \in 1..Len(block.weights) :
                                   block.weights[n].key = key].weight
            ELSE 1
    IN  {Returns(Some(
            [career_matrix |->
                [n \in 1..Len(primary.career_matrix) |->
                    [name |-> primary.career_matrix[n].name,
                     vec  |-> [k \in 1..Len(criteria_order) |->
                                  primary.career_matrix[n].vec[k]
                                      * WeightOf(criteria_order[k])]]],
             criteria_labels |-> primary.criteria_labels]))}

\* (a faulty variant of ParseAgentResponseText: the table of a payload, followed by
\* an option for every role keyword of the text that the payload does not name)
ParseAgentResponseTextMerging(response_text) ==
    LET primary == PrimaryTable(response_text.block.careers)
    IN  { LET mentioned == BasicMatrix(FormatCareers(order, <<>>), <<>>)
              added == SelectSeq(mentioned,
                                 LAMBDA e : ~HasKey(primary.career_matrix, e.name))
          IN  Returns(Some([career_matrix |-> primary.career_matrix \o added,
                            criteria_labels |-> primary.criteria_labels]))
          : order \in Orders(CareersFound(WordsOf(response_text))) }

\* parse_agent_response_text: the outcomes it can come to.  JSONDecodeError and
\* AttributeError are caught and give None; any other exception leaves the function
ParseAgentResponseText(response_text) ==
    LET career_data == response_text.block
        careers == career_data.careers
    IN  CASE career_data.kind = "absent"  -> TextFallback(response_text)
          [] career_data.kind = "invalid" -> {Returns(None)}     \* JSONDecodeError
          [] career_data.kind \in {"number", "null", "bool"} ->
                {Raises("TypeError")}                  \* 'careers' in career_data
          [] career_data.kind \in {"string", "list"} ->
                IF "careers" \in Range(career_data.items)
                THEN {Raises("TypeError")}              \* career_data['careers']
                ELSE TextFallback(response_text)
          [] career_data.kind = "object" ->
                IF careers.kind = "absent" THEN TextFallback(response_text)
                ELSE IF careers.kind # "object"
                THEN {Returns(None)}                   \* careers.items(): AttributeError
                ELSE IF \E n \in 1..Len(careers.entries) :
                            careers.entries[n].kind # "object"
                THEN {Returns(None)}                   \* scores.get: AttributeError
                ELSE {Returns(Some(PrimaryTable(careers)))}

\* create_model_from_agent_data: the models it can return.  agent_result is the
\* dict [career_matrix, criteria_labels, response]; any exception gives the default
CreateModelFromAgentData(h, id, agent_result) ==
    IF Truthy(agent_result.career_matrix) /\ Truthy(agent_result.criteria_labels)
    THEN {CareerGameModelInit(h, id, agent_result.career_matrix,
                              agent_result.criteria_labels)}
    ELSE { IF parsed_data.raised
           THEN CareerGameModelInit(h, id, None, None)      \* except Exception
           ELSE IF parsed_data.result.given                 \* if parsed_data:
           THEN CareerGameModelInit(h, id,
                                    Some(parsed_data.result.val.career_matrix),
                                    Some(parsed_data.result.val.criteria_labels))
           ELSE CareerGameModelInit(h, id, None, None)
           : parsed_data \in ParseAgentResponseText(agent_result.response) }

----------------------------------------------------------------------------
(* The agent module, career_agent.py: what handle_user_input makes of the  *)
(* two responses of the language model.                                    *)

\* (a faulty variant of CAREER_SCORING_CRITERIA: the first two keys in the other
\* order)
ScoringCriteriaSwapped ==
    << <<"job", "security">>, <<"salary", "potential">>, <<"growth", "opportunity">>,
       <<"work", "life", "balance">>, <<"skill", "transferability">>,
       <<"market", "demand">>, <<"education", "barrier">>, <<"remote", "flexibility">> >>

\* list(CAREER_SCORING_CRITERIA.keys())
CAREER_SCORING_CRITERIA ==
    << <<"salary", "potential">>, <<"job", "security">>, <<"growth", "opportunity">>,
       <<"work", "life", "balance">>, <<"skill", "transferability">>,
       <<"market", "demand">>, <<"education", "barrier">>, <<"remote", "flexibility">> >>

\* bool(value) of a parsed JSON value (the number and the bool drawn are not 0 / false)
JsonTruthy(value) ==
    CASE value.kind \in {"absent", "invalid", "null"} -> FALSE
      [] value.kind \in {"number", "bool"} -> TRUE
      [] value.kind \in {"string", "list"} -> value.items # <<>>
      [] value.kind = "object" -> value.items # <<>> \/ value.careers.kind # "absent"

\* extract_career_matrix_from_response: the parsed block, or None (no block, or a
\* block that is not JSON)
ExtractCareerMatrixFromResponse(response) ==
    IF response.block.kind \in {"absent", "invalid"} THEN NoBlock ELSE response.block

\* format_career_matrix_for_game_theory: (None, None), the table and the labels, or
\* an exception
FormatCareerMatrixForGameTheory(career_data) ==
    LET careers == career_data.careers
        NoneNone == Returns(None)
    IN  CASE ~JsonTruthy(career_data) -> NoneNone
          [] career_data.kind \in {"number", "bool"} -> Raises("TypeError")
          [] career_data.kind \in {"string", "list"} ->
                IF "careers" \in Range(career_data.items) THEN Raises("TypeError")
                ELSE NoneNone
          [] career_data.kind = "object" ->
                IF careers.kind = "absent" THEN NoneNone
                ELSE IF careers.kind # "object" THEN Raises("AttributeError")
                ELSE IF \E n \in 1..Len(careers.entries) :
                            careers.entries[n].kind # "object"
                THEN Raises("AttributeError")
                ELSE Returns(Some(
                    [career_matrix |->
                        [n \in 1..Len(careers.entries) |->
                            [name |-> careers.entries[n].name,
                             vec  |-> [k \in 1..Len(CAREER_SCORING_CRITERIA) |->
                                          ScoresGet(careers.entries[n].scores,
                                                    CAREER_SCORING_CRITERIA[k], 5)]]],
                     criteria_labels |->
                        [k \in 1..Len(CAREER_SCORING_CRITERIA) |->
                            TitleStr(CAREER_SCORING_CRITERIA[k])]]))

\* the text f"{agent_response}\n\n--- Enhanced Analysis ---\n{enhanced_response}"
CombinedResponse(agent_response, enhanced_response) ==
    [words |-> agent_response \o <<"\n", "\n", "---", "Enhanced", "Analysis", "---", "\n">>
                   \o enhanced_response.words,
     block |-> enhanced_response.block]

\* the text f"Error during agent execution: {str(e)}"
ErrorResponse == [words |-> <<"Error", "during", "agent", "execution:">>, block |-> NoBlock]

\* handle_user_input: the dict it returns, given what the agent and the enhanced
\* prompt answered
HandleUserInput(agent_response, enhanced_response) ==
    LET career_data == ExtractCareerMatrixFromResponse(enhanced_response)
        formatted   == FormatCareerMatrixForGameTheory(career_data)
    IN  IF ~JsonTruthy(career_data)
        THEN [response |-> [words |-> agent_response, block |-> NoBlock],
              career_matrix |-> None, criteria_labels |-> None]
        ELSE IF formatted.raised                          \* except Exception
        THEN [response |-> ErrorResponse, career_matrix |-> None, criteria_labels |-> None]
        ELSE [response |-> CombinedResponse(agent_response, enhanced_response),
              career_matrix |->
                  IF formatted.result.given THEN Some(formatted.result.val.career_matrix)
                  ELSE None,
              criteria_labels |->
                  IF formatted.result.given THEN Some(formatted.result.val.criteria_labels)
                  ELSE None]

----------------------------------------------------------------------------
(* The pure helpers of ui_streamlit.py.                                    *)

\* `if response_text:` of a response
NonEmptyText(response_text) ==
    response_text.words # <<>> \/ response_text.block.kind # "absent"

\* parse_agent_response_for_careers: what it can return, None or the dict; any
\* exception is caught and gives None
ParseAgentResponseForCareers(agent_result) ==
    IF Truthy(agent_result.career_matrix) /\ Truthy(agent_result.criteria_labels)
    THEN {Some([career_matrix |-> agent_result.career_matrix.val,
                criteria_labels |-> agent_result.criteria_labels.val])}
    ELSE IF NonEmptyText(agent_result.response)
    THEN {IF parsed.raised THEN None ELSE parsed.result :
             parsed \in ParseAgentResponseText(agent_result.response)}
    ELSE {None}

\* career_keywords of extract_career_matrix_from_context
career_keywords ==
    << <<"software", "engineer">>, <<"data", "scientist">>, <<"product", "manager">>,
       <<"consultant">>, <<"researcher">>, <<"entrepreneur">>, <<"designer">>,
       <<"analyst">>, <<"developer">>, <<"manager">>, <<"scientist">>, <<"teacher">>,
       <<"doctor">>, <<"lawyer">>, <<"architect">>, <<"marketing">>, <<"finance">> >>

\* careers_mentioned of extract_career_matrix_from_context: the keywords, title-cased,
\* that the agent's or the user's words of one of the last 5 entries hold
CareersMentioned(chat_history) ==
    LET recent == SubSeq(chat_history,
                         IF Len(chat_history) > 5 THEN Len(chat_history) - 4 ELSE 1,
                         Len(chat_history))
    IN  {TitleStr(career_keywords[k]) : k \in
            {k \in 1..Len(career_keywords) :
                \E n \in 1..Len(recent) :
                    Contained(career_keywords[k],
                              LowerStr(recent[n].agent \o recent[n].user))}}

\* extract_career_matrix_from_context: what it can return, None or a dict that gives
\* each career of the set, in the order the set is iterated in, [7, 6, 7, 5, 6]
ExtractCareerMatrixFromContext(chat_history) ==
    LET careers_mentioned == CareersMentioned(chat_history)
    IN  IF Cardinality(careers_mentioned) >= 2
        THEN {Some([n \in 1..Len(order) |-> [name |-> order[n], vec |-> <<7, 6, 7, 5, 6>>]]) :
                 order \in Orders(careers_mentioned)}
        ELSE {None}

----------------------------------------------------------------------------
(* Inputs of the runs.                                                     *)

\* career names a caller supplies (those of the module's own test run)
OptionNames == {<<"AI", "Engineer">>, <<"Product", "Manager">>, <<"Consultant">>}
\* scores a caller supplies
Scores == {3, 5}
ScoreVectors == SeqsOf(Scores, 0, MaxLen)
\* the dicts with the careers ns, in that order, and any vectors
TablesOver(ns) ==
    {[i \in 1..Len(ns) |-> [name |-> ns[i], vec |-> vs[i]]] :
        vs \in [1..Len(ns) -> ScoreVectors]}
\* every dict of at most MaxOptions careers with vectors of any lengths up to MaxLen
Tables == UNION {TablesOver(ns) : ns \in InjSeqs(OptionNames, MaxOptions)}
\* one career scored on MaxCriteria criteria
WideScores == {4, 5}
WideTables ==
    {<<[name |-> <<"Consultant">>, vec |-> v]>> :
        v \in SeqsOf(WideScores, MaxCriteria, MaxCriteria)}
\* the dicts a replacement supplies: none, one or two careers
NewNames == << <<"AI", "Engineer">>, <<"Consultant">> >>
NewTables == UNION {TablesOver(SubSeq(NewNames, 1, n)) : n \in 0..Len(NewNames)}
\* a criteria_labels argument: omitted, the empty list, or two labels
TwoLabels == << <<"Pay">>, <<"Risk">> >>
LabelArgs == {None, Some(<<>>), Some(TwoLabels)}
\* MaxCriteria labels, for the widest tables
Numerals == <<"1", "2", "3", "4", "5", "6", "7", "8", "9", "10">>
WideLabels == [i \in 1..MaxCriteria |-> <<"Criterion", Numerals[i]>>]

\* the model under test of a run that exercises one CareerGameModel
M == "session1"

\* a response without a word
NoText == [words |-> <<>>, block |-> NoBlock]

\* what a call leaves in ret
Call(op, id, career_matrix, criteria_labels, out, again) ==
    [op |-> op, id |-> id, career_matrix |-> career_matrix,
     criteria_labels |-> criteria_labels, out |-> out, again |-> again]

\* the rows of the table `sessions` of db_handler.py: the users, and the data saved
\* for a user (none at first): the keys of the dict and the values of those read
UserIds == {"default_user", "user1", "user2"}
NoSession == [keys |-> {}, history |-> <<>>, game_explanation |-> Raised]
InitialStore == [user_id \in UserIds |-> NoSession]

\* no set has been iterated yet: the order of each is still to be decided
NoOrder == [S \in {} |-> <<>>]

\* the same read of the same model as the call before it, nothing done in between
Again(op, id) == ret.op = op /\ ret.id = id

----------------------------------------------------------------------------
(* ModelSpec: one CareerGameModel, constructed from any arguments, then    *)
(* replaced and read in any order.                                         *)

\* the three models as the module and the sessions create them: CareerGameModel()
DefaultModels ==
    [id \in ModelIds |-> CareerGameModelInit(InitialHeap, id, None, None).model]

\* model = CareerGameModel(cm, cl)
Constructed(cm, cl) ==
    LET c == CareerGameModelInit(InitialHeap, M, cm, cl)
    IN  /\ heap = c.heap
        /\ models = [DefaultModels EXCEPT ![M] = c.model]
        /\ history = [id \in ModelIds |-> <<>>]
        /\ ret = Call("__init__", M, cm, cl, c.model, FALSE)
        /\ text = NoText
        /\ store = InitialStore
        /\ pc = "model"
        /\ set_order = NoOrder

ModelInit ==
    \E cm \in {None} \cup {Some(t) : t \in NewTables}, cl \in LabelArgs :
        Constructed(cm, cl)

\* model.update_career_matrix(career_matrix, criteria_labels)
DoUpdate(id, career_matrix, criteria_labels) ==
    LET u == UpdateCareerMatrix(heap, id, models[id], career_matrix, criteria_labels)
    IN  /\ heap' = u.heap
        /\ models' = [models EXCEPT ![id] = u.model]
        /\ ret' = Call("update_career_matrix", id, Some(career_matrix), criteria_labels,
                       u.model,
                       /\ Again("update_career_matrix", id)
                       /\ ret.career_matrix = Some(career_matrix)
                       /\ ret.criteria_labels = criteria_labels)
        /\ UNCHANGED <<history, text, store, pc, set_order>>

Update ==
    \E career_matrix \in NewTables, criteria_labels \in LabelArgs :
        DoUpdate(M, career_matrix, criteria_labels)

\* (a faulty variant of Read: the read leaves the careers of the table in reverse order)
ReadReversing(op, id, out) ==
    /\ ret' = Call(op, id, None, None, out, Again(op, id))
    /\ heap' = [heap EXCEPT ![models[id].career_matrix] =
                    [i \in 1..Len(@) |-> @[Len(@) + 1 - i]]]
    /\ UNCHANGED <<models, history, text, store, pc, set_order>>

\* a read: the call's outcome goes to ret, nothing else changes
Read(op, id, out) ==
    /\ ret' = Call(op, id, None, None, out, Again(op, id))
    /\ UNCHANGED <<heap, models, history, text, store, pc, set_order>>

\* model.get_payoff_matrix(); a ragged table raises or not, by the numpy version
CallGetPayoffMatrix ==
    \E raises \in BOOLEAN :
        LET pm == GetPayoffMatrix(heap, models[M])
        IN  /\ raises => pm.matrix.ragged
            /\ Read("get_payoff_matrix", M,
                    IF raises THEN Raised
                    ELSE [raised |-> FALSE, matrix |-> pm.matrix, careers |-> pm.careers])

\* model.calculate_strategy_scores()
CallCalculateStrategyScores ==
    Read("calculate_strategy_scores", M, CalculateStrategyScores(heap, models[M]))

\* model.get_career_rankings()
CallGetCareerRankings ==
    Read("get_career_rankings", M, GetCareerRankings(heap, models[M]))

\* model.explain_game_theory_choice()
CallExplainGameTheoryChoice ==
    Read("explain_game_theory_choice", M, ExplainGameTheoryChoice(heap, models[M]))

ModelNext ==
    \/ Update
    \/ CallGetPayoffMatrix
    \/ CallCalculateStrategyScores
    \/ CallGetCareerRankings
    \/ CallExplainGameTheoryChoice

ModelSpec == ModelInit /\ [][ModelNext]_vars

----------------------------------------------------------------------------
(* EngineSpec: the scoring engine and the renderer as functions of the     *)
(* table: a model constructed from any table, then only read.              *)

EngineInit ==
    \/ \E cm \in {None} \cup {Some(t) : t \in Tables}, cl \in LabelArgs :
          Constructed(cm, cl)
    \/ \E t \in WideTables : Constructed(Some(t), Some(WideLabels))

EngineNext ==
    \/ CallGetPayoffMatrix
    \/ CallCalculateStrategyScores
    \/ CallGetCareerRankings
    \/ CallExplainGameTheoryChoice

EngineSpec == EngineInit /\ [][EngineNext]_vars

----------------------------------------------------------------------------
(* AdapterSpec: a response text is parsed, a model is created from it, and *)
(* the model is read.                                                      *)

\* the words written before the block
TextWords == {"software", "engineer", "Designer", "MBA", "graduate", "marketing",
              "role", "\n"}
Proses == SeqsOf(TextWords, 0, MaxWords)

\* blocks that are not a payload of careers
OddBlocks ==
    { NoBlock,
      Json("invalid", <<>>, NoCareers),
      Json("number", <<>>, NoCareers),
      Json("null", <<>>, NoCareers),
      Json("bool", <<>>, NoCareers),
      Json("string", <<"designer">>, NoCareers),
      Json("string", <<"the", "careers">>, NoCareers),
      Json("list", <<"designer">>, NoCareers),
      Json("list", <<"careers">>, NoCareers),
      Json("object", <<"options">>, NoCareers),
      Json("object", <<>>, [kind |-> "number", entries |-> <<>>]),
      Json("object", <<>>, [kind |-> "string", entries |-> <<>>]),
      Json("object", <<>>, [kind |-> "null", entries |-> <<>>]),
      Json("object", <<>>, [kind |-> "list", entries |-> <<>>]),
      Json("object", <<>>,
           [kind |-> "object",
            entries |-> <<[name |-> <<"Designer">>, kind |-> "number", scores |-> <<>>]>>]),
      Json("object", <<>>,
           [kind |-> "object",
            entries |-> <<[name |-> <<"Designer">>, kind |-> "null", scores |-> <<>>]>>]) }

\* the careers of a payload, the keys it scores them on (the eight of criteria_order
\* and one more) and the scores it gives, in and out of 1..10
PayloadNames == {<<"AI", "Engineer">>, <<"Designer">>}
PayloadKeys == criteria_order \o << <<"prestige">> >>
PayloadScores == {4, 11}

\* the elements of a set of numbers, ascending
RECURSIVE Ascending(_)
Ascending(S) ==
    IF S = {} THEN <<>>
    ELSE LET x == CHOOSE x \in S : \A y \in S : x <= y
         IN  <<x>> \o Ascending(S \ {x})

\* the objects that score a career on at most MaxGiven keys
ScoreMaps ==
    UNION { LET ks == Ascending(K)
            IN  {[n \in 1..Len(ks) |-> [key |-> PayloadKeys[ks[n]], score |-> f[n]]] :
                    f \in [1..Len(ks) -> PayloadScores]}
            : K \in {K \in SUBSET (1..Len(PayloadKeys)) : Cardinality(K) <= MaxGiven} }

\* the payloads {"careers": {name: {key: score}}}
Payloads ==
    UNION { {Json("object", <<>>,
                  [kind |-> "object",
                   entries |-> [n \in 1..Len(ns) |->
                                   [name |-> ns[n], kind |-> "object", scores |-> ms[n]]]]) :
                ms \in [1..Len(ns) -> ScoreMaps]}
            : ns \in InjSeqs(PayloadNames, Cardinality(PayloadNames)) }

\* the values of 'criteria_weights' a payload comes with
WeightMaps ==
    { <<[key |-> <<"salary", "potential">>, weight |-> 15]>>,
      <<[key |-> <<"salary", "potential">>, weight |-> 40],
        [key |-> <<"job", "security">>, weight |-> 10]>> }
\* the payloads of the two careers, in one order, each with each of the weights
WeightedPayloads ==
    {WithWeights(payload, weights) :
        payload \in {p \in Payloads :
                        /\ Len(p.careers.entries) = Cardinality(PayloadNames)
                        /\ p.careers.entries[1].name = <<"AI", "Engineer">>},
        weights \in WeightMaps}

\* a text that names seven careers, and the text of the comparison of two roles
ManyCareers ==
    <<"consultant", "researcher", "analyst", "developer", "designer", "manager",
      "architect">>
ComparingRoles == <<"I'm", "comparing", "software", "engineer", "and", "designer", "roles">>

\* the responses: any words without a block, and a few words before each block
Texts ==
    {[words |-> words, block |-> NoBlock] : words \in Proses \cup {ComparingRoles}}
    \cup {[words |-> words, block |-> block] :
             words \in {<<>>, <<"Designer">>, <<"marketing">>},
             block \in (OddBlocks \ {NoBlock}) \cup Payloads}
    \cup {[words |-> <<>>, block |-> block] : block \in WeightedPayloads}

\* a run over one of the responses of texts: the module is imported, and the salt
\* of the hashes decides the order of the set of the careers found in the response
AdapterInitOver(texts) ==
    /\ text \in texts
    /\ heap = InitialHeap
    /\ models = DefaultModels
    /\ history = [id \in ModelIds |-> <<>>]
    /\ ret = Call("import", M, None, None, DefaultModels[M], FALSE)
    /\ store = InitialStore
    /\ pc = "adapter"
    /\ set_order \in {[S \in {CareersFound(WordsOf(text))} |-> order] :
                        order \in Arrangements(CareersFound(WordsOf(text)))}

AdapterInit == AdapterInitOver(Texts)

\* parse_agent_response_text(text)
CallParseAgentResponseText ==
    \E out \in ParseAgentResponseText(text) :
        Read("parse_agent_response_text", M, out)

\* model = create_model_from_agent_data({'response': text})
CallCreateModelFromAgentData ==
    \E c \in CreateModelFromAgentData(heap, M, [career_matrix |-> None,
                                                criteria_labels |-> None,
                                                response |-> text]) :
        /\ heap' = c.heap
        /\ models' = [models EXCEPT ![M] = c.model]
        /\ ret' = Call("create_model_from_agent_data", M, None, None, c.model, FALSE)
        /\ pc' = "created"
        /\ UNCHANGED <<history, text, store, set_order>>

AdapterNext ==
    \/ CallParseAgentResponseText
    \/ CallCreateModelFromAgentData
    \/ CallGetPayoffMatrix
    \/ CallCalculateStrategyScores
    \/ CallGetCareerRankings
    \/ CallExplainGameTheoryChoice

AdapterSpec == AdapterInit /\ [][AdapterNext]_vars

(* FallbackSpec: the fallback of the adapter on responses without a block, *)
(* among them one that names more careers than a table is given.           *)
FallbackTexts ==
    {[words |-> words, block |-> NoBlock] :
        words \in Proses \cup {ManyCareers, ComparingRoles}}

FallbackInit == AdapterInitOver(FallbackTexts)

FallbackNext ==
    \/ CallParseAgentResponseText
    \/ CallCreateModelFromAgentData

FallbackSpec == FallbackInit /\ [][FallbackNext]_vars

----------------------------------------------------------------------------
(* The sessions of the Streamlit UI (ui_streamlit.py), each with its own   *)
(* st.session_state, and the users of the legacy pipeline (pipeline.py),   *)
(* who share the module's _global_model.                                   *)

Sessions == {"session1", "session2"}
PipelineUsers == {"user1", "user2"}

\* the user_id of every UI session
DefaultUser == "default_user"

\* what the user types, what the agent answers, what the enhanced prompt answers
UserInputs == {<<"designer">>}
AgentResponses == {<<"software", "engineer">>, <<"the">>}
SamplePayload ==
    Json("object", <<>>,
         [kind |-> "object",
          entries |-> << [name |-> <<"AI", "Engineer">>, kind |-> "object",
                          scores |-> <<[key |-> <<"salary", "potential">>, score |-> 9]>>],
                         [name |-> <<"Consultant">>, kind |-> "object",
                          scores |-> <<>>] >>])
EmptyPayload == Json("object", <<>>, [kind |-> "object", entries |-> <<>>])
EnhancedResponses ==
    {[words |-> <<>>, block |-> block] :
        block \in {NoBlock, Json("number", <<>>, NoCareers), SamplePayload, EmptyPayload}}

\* the name and the five sliders of the manual entry (the sliders start at 7 6 7 5 6)
ManualNames == {<<"AI", "Engineer">>}
SliderValues == {<<7, 6, 7, 5, 6>>, <<10, 1, 10, 1, 10>>}

SessionInit ==
    /\ heap = InitialHeap
    /\ models = DefaultModels
    /\ history = [id \in ModelIds |-> <<>>]
    /\ ret = Call("import", "_global_model", None, None, DefaultModels["_global_model"], FALSE)
    /\ text = NoText
    /\ store = InitialStore
    /\ pc = [s \in Sessions |-> "new"]
    /\ set_order = NoOrder

\* the model of a session or the global one becomes m, in the heap h
SetModel(id, op, h, m) ==
    /\ heap' = h
    /\ models' = [models EXCEPT ![id] = m]
    /\ ret' = Call(op, id, None, None, m, FALSE)

\* main, first run of a session: st.session_state gets a default model and the
\* history saved for the default user
Open(s) ==
    /\ pc[s] = "new"
    /\ LET c == CareerGameModelInit(heap, s, None, None)
       IN  SetModel(s, "main", c.heap, c.model)
    /\ history' = [history EXCEPT ![s] = store[DefaultUser].history]
    /\ pc' = [pc EXCEPT ![s] = "open"]
    /\ UNCHANGED <<text, store, set_order>>

\* main, the Analyze button: the agent is asked, the exchange is appended to the
\* history and saved, and the table is replaced by the structured data of the
\* result or else by what the text of the response parses to
Analyze(s, user_input, agent_response, enhanced_response) ==
    /\ pc[s] = "open"
    /\ user_input # <<>>
    /\ Len(history[s]) < MaxHistory
    /\ LET agent_result == HandleUserInput(agent_response, enhanced_response)
           entry == [user |-> user_input, agent |-> WordsOf(agent_result.response)]
           saved == Append(history[s], entry)
       IN  /\ history' = [history EXCEPT ![s] = saved]
           /\ store' = [store EXCEPT ![DefaultUser] =
                           [keys |-> {"history"}, history |-> saved,
                            game_explanation |-> Raised]]
           /\ IF /\ Truthy(agent_result.career_matrix)
                 /\ Truthy(agent_result.criteria_labels)
              THEN LET u == UpdateCareerMatrix(heap, s, models[s],
                                               agent_result.career_matrix.val,
                                               agent_result.criteria_labels)
                   IN  SetModel(s, "analyze", u.heap, u.model)
              ELSE \E parsed_careers \in ParseAgentResponseForCareers(agent_result) :
                      IF parsed_careers.given              \* if parsed_careers:
                      THEN LET u == UpdateCareerMatrix(heap, s, models[s],
                                        parsed_careers.val.career_matrix,
                                        Some(parsed_careers.val.criteria_labels))
                           IN  SetModel(s, "analyze", u.heap, u.model)
                      ELSE SetModel(s, "analyze", heap, models[s])
    /\ UNCHANGED <<text, pc, set_order>>

\* create_advanced_settings_panel, the Auto-Update button
AutoUpdate(s) ==
    /\ pc[s] = "open"
    /\ \E extracted_matrix \in ExtractCareerMatrixFromContext(history[s]) :
          IF Truthy(extracted_matrix)                     \* if extracted_matrix:
          THEN LET u == UpdateCareerMatrix(heap, s, models[s], extracted_matrix.val, None)
               IN  SetModel(s, "auto_update", u.heap, u.model)
          ELSE SetModel(s, "auto_update", heap, models[s])
    /\ UNCHANGED <<history, text, store, pc, set_order>>

\* create_advanced_settings_panel, the Reset button
Reset(s) ==
    /\ pc[s] = "open"
    /\ LET c == CareerGameModelInit(heap, s, None, None)
       IN  SetModel(s, "reset_matrix", c.heap, c.model)
    /\ UNCHANGED <<history, text, store, pc, set_order>>

\* (a faulty variant of ManualAdd: the career is written into the table of the model
\* itself, without the copy)
ManualAddInPlace(s, career_name, sliders) ==
    /\ pc[s] = "open"
    /\ career_name # <<>>
    /\ heap' = [heap EXCEPT ![models[s].career_matrix] = DictSet(@, career_name, sliders)]
    /\ ret' = Call("add_manual_career", s, None, None, models[s], FALSE)
    /\ UNCHANGED <<models, history, text, store, pc, set_order>>

\* create_manual_career_entry, the Add button: a copy of the table gets the career
\* with the values of the five sliders and replaces the table
ManualAdd(s, career_name, sliders) ==
    /\ pc[s] = "open"
    /\ career_name # <<>>
    /\ LET current_matrix == DictSet(MatrixOf(heap, models[s]), career_name, sliders)
           u == UpdateCareerMatrix(heap, s, models[s], current_matrix, None)
       IN  SetModel(s, "add_manual_career", u.heap, u.model)
    /\ UNCHANGED <<history, text, store, pc, set_order>>

\* create_stats_dashboard, on every run of main: the rankings of the session's table
Dashboard(s) ==
    /\ pc[s] = "open"
    /\ Read("get_career_rankings", s, GetCareerRankings(heap, models[s]))

\* the explanation shown to a session
Explanation(s) ==
    /\ pc[s] = "open"
    /\ Read("explain_game_theory_choice", s, ExplainGameTheoryChoice(heap, models[s]))

\* update_global_career_matrix, called for a user of the pipeline
UpdateGlobalCareerMatrix(user_id, career_matrix, criteria_labels) ==
    LET u == UpdateCareerMatrix(heap, "_global_model", models["_global_model"],
                                career_matrix, criteria_labels)
    IN  /\ heap' = u.heap
        /\ models' = [models EXCEPT !["_global_model"] = u.model]
        /\ ret' = Call("update_global_career_matrix", user_id, Some(career_matrix),
                       criteria_labels, u.model, FALSE)
        /\ UNCHANGED <<history, text, store, pc, set_order>>

\* run_pipeline(user_id, user_input, known_data): with incomplete data it returns at
\* once; else it explains the choice of the global model and saves the session
RunPipeline(user_id, complete) ==
    LET game_explanation ==
            ExplainGameTheoryChoice(heap, models["_global_model"])
    IN  /\ ret' = Call("run_pipeline", user_id, None, None,
                       IF ~complete THEN [raised |-> FALSE, status |-> "incomplete"]
                       ELSE IF game_explanation.raised THEN Raised
                       ELSE [raised |-> FALSE, status |-> "success",
                             game_theory |-> game_explanation],
                       FALSE)
        /\ store' = IF complete /\ ~game_explanation.raised
                    THEN [store EXCEPT ![user_id] =
                            [keys |-> @.keys \cup {"last_input", "agent_response",
                                                   "job_data", "game_explanation"},
                             history |-> @.history,
                             game_explanation |-> game_explanation]]
                    ELSE store
        /\ UNCHANGED <<heap, models, history, text, pc, set_order>>

\* SessionSpec: one session of the UI
SessionNext ==
    \/ Open(M)
    \/ \E user_input \in UserInputs, agent_response \in AgentResponses,
          enhanced_response \in EnhancedResponses :
          Analyze(M, user_input, agent_response, enhanced_response)
    \/ AutoUpdate(M)
    \/ Reset(M)
    \/ \E career_name \in ManualNames, sliders \in SliderValues :
          ManualAdd(M, career_name, sliders)
    \/ Dashboard(M)
    \/ Explanation(M)

SessionSpec == SessionInit /\ [][SessionNext]_vars

\* Spec: two sessions of the UI and two users of the pipeline, in any interleaving
\* the tables update_global_career_matrix is called with
GlobalTables == {t \in NewTables : Len(t) = 1 /\ t[1].vec \in {<<3, 5>>, <<5, 3>>}}

Next ==
    \/ \E s \in Sessions : Open(s)
    \/ \E s \in Sessions :
          Analyze(s, <<"designer">>, <<"the">>, [words |-> <<>>, block |-> SamplePayload])
    \/ \E s \in Sessions : Reset(s)
    \/ \E s \in Sessions : ManualAdd(s, <<"AI", "Engineer">>, <<7, 6, 7, 5, 6>>)
    \/ \E s \in Sessions : Dashboard(s)
    \/ \E user_id \in PipelineUsers, career_matrix \in GlobalTables :
          UpdateGlobalCareerMatrix(user_id, career_matrix, Some(TwoLabels))
    \/ \E user_id \in PipelineUsers, complete \in BOOLEAN : RunPipeline(user_id, complete)

Spec == SessionInit /\ [][Next]_vars

----------------------------------------------------------------------------
(* StoreSpec: the session store of utils/db_handler.py.  The table         *)
(* `sessions` has the columns user_id (the primary key) and session_data,  *)
(* the JSON text of the data saved; here store is the table, a function    *)
(* from the user ids that have a row to the JSON value their text writes.  *)

\* the Python values the program saves: None, str, int, list and dict with str keys
PyNone == [kind |-> "None"]
PyStr(val) == [kind |-> "str", val |-> val]
PyInt(val) == [kind |-> "int", val |-> val]
PyList(items) == [kind |-> "list", items |-> items]
PyDict(entries) == [kind |-> "dict", entries |-> entries]
\* d[key] = value of a Python dict: an existing key keeps its place
PySet(d, key, value) ==
    PyDict(IF \E i \in 1..Len(d.entries) : d.entries[i].key = key
           THEN [i \in 1..Len(d.entries) |->
                    IF d.entries[i].key = key THEN [key |-> key, value |-> value]
                    ELSE d.entries[i]]
           ELSE Append(d.entries, [key |-> key, value |-> value]))

\* json.dumps: None is written null, a str a string, an int a number, a list an
\* array of what its items are written as, a dict an object with its keys as names
RECURSIVE JsonDumps(_)
JsonDumps(obj) ==
    CASE obj.kind = "None" -> [kind |-> "null"]
      [] obj.kind = "str"  -> [kind |-> "string", chars |-> obj.val]
      [] obj.kind = "int"  -> [kind |-> "number", digits |-> obj.val]
      [] obj.kind = "list" ->
            [kind |-> "array",
             elements |-> [i \in 1..Len(obj.items) |-> JsonDumps(obj.items[i])]]
      [] obj.kind = "dict" ->
            [kind |-> "object",
             members |-> [i \in 1..Len(obj.entries) |->
                             [name |-> obj.entries[i].key,
                              value |-> JsonDumps(obj.entries[i].value)]]]

\* json.loads: null gives None, a string a str, a number without fraction an int,
\* an array a list and an object a dict
RECURSIVE JsonLoads(_)
JsonLoads(json) ==
    CASE json.kind = "null"   -> PyNone
      [] json.kind = "string" -> PyStr(json.chars)
      [] json.kind = "number" -> PyInt(json.digits)
      [] json.kind = "array"  ->
            PyList([i \in 1..Len(json.elements) |-> JsonLoads(json.elements[i])])
      [] json.kind = "object" ->
            PyDict([i \in 1..Len(json.members) |->
                       [key |-> json.members[i].name,
                        value |-> JsonLoads(json.members[i].value)]])

\* (a faulty variant of InsertOrReplace: the data is written to every row as well)
InsertOrReplaceAll(sessions, user_id, json_data) ==
    [u \in DOMAIN sessions \cup {user_id} |-> json_data]

\* INSERT OR REPLACE INTO sessions (user_id, session_data) VALUES (?, ?)
InsertOrReplace(sessions, user_id, json_data) ==
    [u \in DOMAIN sessions \cup {user_id} |->
        IF u = user_id THEN json_data ELSE sessions[u]]

\* save_session(user_id, session_data): the table it leaves
SaveSession(sessions, user_id, session_data) ==
    LET json_data == JsonDumps(session_data)
    IN  InsertOrReplace(sessions, user_id, json_data)

\* load_session(user_id): json.loads(row[0]) if row else {}
LoadSession(sessions, user_id) ==
    IF user_id \in DOMAIN sessions THEN JsonLoads(sessions[user_id]) ELSE PyDict(<<>>)

\* the table when the database file is created: no row
NoRows == [u \in {} |-> [kind |-> "null"]]

\* the exchanges of a chat, and {"history": [{"user": .., "agent": ..}, ..]}, which
\* main saves after every analysis
Exchanges ==
    {[user |-> <<"designer">>, agent |-> agent_response] :
        agent_response \in AgentResponses}
HistoryData(chat) ==
    PyDict(<< [key |-> "history",
               value |-> PyList([i \in 1..Len(chat) |->
                            PyDict(<< [key |-> "user", value |-> PyStr(chat[i].user)],
                                      [key |-> "agent",
                                       value |-> PyStr(chat[i].agent)] >>)])] >>)
UiSessionData == {HistoryData(chat) : chat \in SeqsOf(Exchanges, 1, MaxHistory)}

\* what handle_user_input returns to run_pipeline: without structured data, and
\* with the career matrix of one career
AgentResults ==
    { PyDict(<< [key |-> "response", value |-> PyStr(<<"the">>)],
                [key |-> "career_matrix", value |-> PyNone],
                [key |-> "criteria_labels", value |-> PyNone],
                [key |-> "raw_career_data", value |-> PyNone] >>),
      PyDict(<< [key |-> "response", value |-> PyStr(<<"the">>)],
                [key |-> "career_matrix",
                 value |-> PyDict(<< [key |-> "Consultant",
                                      value |-> PyList(<<PyInt(9), PyInt(5)>>)] >>)],
                [key |-> "criteria_labels",
                 value |-> PyList(<<PyStr(<<"Pay">>), PyStr(<<"Risk">>)>>)],
                [key |-> "raw_career_data", value |-> PyNone] >>) }

\* the session data run_pipeline saves: what it loaded, with its four keys set
PipelineData(session_data, agent_response) ==
    PySet(PySet(PySet(PySet(session_data,
        "last_input", PyStr(<<"designer">>)),
        "agent_response", agent_response),
        "job_data", PyList(<<>>)),
        "game_explanation", PyStr(<<"Consultant">>))

StoreCall(op, user_id, session_data, out) ==
    [op |-> op, id |-> user_id, session_data |-> session_data, out |-> out]

StoreInit ==
    /\ heap = InitialHeap
    /\ models = DefaultModels
    /\ history = [id \in ModelIds |-> <<>>]
    /\ ret = StoreCall("init_db", DefaultUser, PyNone, PyNone)
    /\ text = NoText
    /\ store = NoRows
    /\ pc = "store"
    /\ set_order = NoOrder

\* save_session(user_id, session_data)
CallSaveSession(user_id, session_data) ==
    /\ store' = SaveSession(store, user_id, session_data)
    /\ ret' = StoreCall("save_session", user_id, session_data, PyNone)
    /\ UNCHANGED <<heap, models, history, text, pc, set_order>>

\* load_session(user_id)
CallLoadSession(user_id) ==
    /\ ret' = StoreCall("load_session", user_id, PyNone, LoadSession(store, user_id))
    /\ UNCHANGED <<heap, models, history, text, store, pc, set_order>>

\* main saves the history of the default user; run_pipeline saves for its user what
\* it loaded for that user, with its keys set; any user is loaded
StoreNext ==
    \/ \E session_data \in UiSessionData : CallSaveSession(DefaultUser, session_data)
    \/ \E user_id \in UserIds, agent_response \in AgentResults :
          CallSaveSession(user_id,
                          PipelineData(LoadSession(store, user_id), agent_response))
    \/ \E user_id \in UserIds : CallLoadSession(user_id)

StoreSpec == StoreInit /\ [][StoreNext]_vars

----------------------------------------------------------------------------
(* What the claims speak of.                                               *)

\* the table and the labels of a model in the current state
TableOf(id) == MatrixOf(heap, models[id])
LabelsNow(id) == LabelsOf(heap, models[id])

\* at least one option, and one number m >= 1 of scores in every vector
Rectangular(t) ==
    /\ Len(t) >= 1
    /\ Len(t[1].vec) >= 1
    /\ \A i \in 1..Len(t) : Len(t[i].vec) = Len(t[1].vec)
\* every vector as long as the list of labels
WellFormed(t, labels) == \A i \in 1..Len(t) : Len(t[i].vec) = Len(labels)

\* x is the least / the greatest element of v
IsMinOf(x, v) == (\E k \in 1..Len(v) : v[k] = x) /\ (\A k \in 1..Len(v) : x <= v[k])
IsMaxOf(x, v) == (\E k \in 1..Len(v) : v[k] = x) /\ (\A k \in 1..Len(v) : x >= v[k])

\* the outcome of calculate_strategy_scores is right for table t: the worst-case
\* vector holds the minima in insertion order and no option has a greater one
\* than the selected option
MinimaxOf(t, out) ==
    /\ ~out.raised
    /\ Len(out.worst_case_payoffs) = Len(t)
    /\ \A i \in 1..Len(t) : IsMinOf(out.worst_case_payoffs[i], t[i].vec)
    /\ out.best_strategy_idx + 1 \in 1..Len(t)
    /\ \A j \in 1..Len(t) :
          out.worst_case_payoffs[j] <= out.worst_case_payoffs[out.best_strategy_idx + 1]

(* C1: for every table with at least one option and at least one          *)
(* criterion, calculate_strategy_scores returns the minima of the vectors  *)
(* in insertion order, and an option whose minimum no other option         *)
(* exceeds.                                                                *)
C1_MinimaxOptimal ==
    (ret.op = "calculate_strategy_scores" /\ Rectangular(TableOf(ret.id)))
        => MinimaxOf(TableOf(ret.id), ret.out)

\* reached: several options, the selected one not the first, and a minimum that
\* is not the first score of its vector
C1_Witness ==
    /\ ret.op = "calculate_strategy_scores"
    /\ Rectangular(TableOf(ret.id))
    /\ WellFormed(TableOf(ret.id), LabelsNow(ret.id))
    /\ Len(TableOf(ret.id)) >= 2
    /\ ~ret.out.raised
    /\ ret.out.best_strategy_idx >= 1
    /\ \E i \in 1..Len(TableOf(ret.id)) :
          ret.out.worst_case_payoffs[i] < TableOf(ret.id)[i].vec[1]

\* no option before the selected one has as great a worst-case score
FirstOfTheBest(out) ==
    \A j \in 1..out.best_strategy_idx :
        out.worst_case_payoffs[j] < out.worst_case_payoffs[out.best_strategy_idx + 1]

(* C2: among the options that share the greatest worst-case score the      *)
(* first inserted is selected, and a second call on the unmodified table   *)
(* returns what the first returned.                                        *)
C2_TieBreakFirst ==
    [][(ret'.op = "calculate_strategy_scores" /\ ~ret'.out.raised)
          => /\ FirstOfTheBest(ret'.out)
             /\ (ret'.again /\ heap' = heap /\ models' = models) => ret'.out = ret.out]_vars

\* reached: a repeated call on a table where two options tie on the greatest
\* worst-case score
C2_Witness ==
    /\ ret.op = "calculate_strategy_scores"
    /\ ret.again
    /\ ~ret.out.raised
    /\ \E i, j \in 1..Len(ret.out.worst_case_payoffs) :
          /\ i < j
          /\ ret.out.worst_case_payoffs[i] = ret.out.worst_case_payoffs[j]
          /\ \A k \in 1..Len(ret.out.worst_case_payoffs) :
                ret.out.worst_case_payoffs[k] <= ret.out.worst_case_payoffs[i]
          /\ ret.out.best_strategy_idx = i - 1

(* C4: on a table with zero options calculate_strategy_scores,             *)
(* get_career_rankings and explain_game_theory_choice complete without     *)
(* raising (and report that no selection is possible).                     *)
C4_EmptyTableNoRaise ==
    (/\ ret.op \in {"calculate_strategy_scores", "get_career_rankings",
                    "explain_game_theory_choice"}
     /\ Len(TableOf(ret.id)) = 0)
        => ~ret.out.raised

(* C5: update_career_matrix(options, criteria) sets the option map to      *)
(* exactly options; it sets the labels to criteria whenever criteria is    *)
(* provided and otherwise leaves the labels as they were.                  *)
C5_ReplaceAsClaimed ==
    [][ret'.op = "update_career_matrix"
          => /\ MatrixOf(heap', models'[ret'.id]) = ret'.career_matrix.val
             /\ ret'.criteria_labels.given
                   => LabelsOf(heap', models'[ret'.id]) = ret'.criteria_labels.val
             /\ ~ret'.criteria_labels.given
                   => LabelsOf(heap', models'[ret'.id]) = LabelsOf(heap, models[ret'.id])]_vars

\* m is a power of two or the sum of two powers of two
TwoPowers(m) == \E i, j \in 0..12 : m = 2^i \/ m = 2^i + 2^j

\* the statistics of one entry are those of its vector v
StatisticsOf(e, v) ==
    /\ e.payoff_vector = v
    /\ e.total_score = FloatOfInt(SeqSum(v))
    /\ \E x \in Range(v) : IsMinOf(x, v) /\ e.worst_case_score = FloatOfInt(x)
    /\ \E x \in Range(v) : IsMaxOf(x, v) /\ e.best_case_score = FloatOfInt(x)
    /\ FloatLeq(e.worst_case_score, e.average_score)
    /\ FloatLeq(e.average_score, e.best_case_score)

\* get_career_rankings was called on a table of at least one option and criterion
RankedRectangular ==
    /\ ret.op = "get_career_rankings"
    /\ Rectangular(TableOf(ret.id))

(* C6 as stated: for every option of a table with m >= 1 criteria the      *)
(* entry of get_career_rankings has worst_case_score <= average_score <=   *)
(* best_case_score and average_score * m == total_score, total_score the   *)
(* sum, worst_case_score the minimum and best_case_score the maximum of    *)
(* the vector.                                                             *)
C6_MeanTimesCountIsTotal ==
    RankedRectangular =>
        /\ ~ret.out.raised
        /\ \A i \in 1..Len(TableOf(ret.id)) :
              LET e == ret.out.rankings[i]
                  v == TableOf(ret.id)[i].vec
              IN  /\ StatisticsOf(e, v)
                  /\ FloatMulInt(e.average_score, Len(v)) = e.total_score

(* C6 as amended: for integer scores the entry has worst_case_score <=     *)
(* average_score <= best_case_score, total_score the sum, worst_case_score *)
(* the minimum and best_case_score the maximum of the vector, and          *)
(* average_score * m == total_score when m is a power of two or the sum of *)
(* two powers of two (as 5 and 8 are).                                     *)
C6_MeanWithinBounds ==
    RankedRectangular =>
        /\ ~ret.out.raised
        /\ \A i \in 1..Len(TableOf(ret.id)) :
              LET e == ret.out.rankings[i]
                  v == TableOf(ret.id)[i].vec
              IN  /\ StatisticsOf(e, v)
                  /\ TwoPowers(Len(v)) => FloatMulInt(e.average_score, Len(v)) = e.total_score

\* reached: a well-formed table with an option whose mean is no integer and lies
\* strictly between its least and its greatest score
C6_Witness ==
    /\ RankedRectangular
    /\ WellFormed(TableOf(ret.id), LabelsNow(ret.id))
    /\ ~ret.out.raised
    /\ \E i \in 1..Len(TableOf(ret.id)) :
          LET e == ret.out.rankings[i]
              v == TableOf(ret.id)[i].vec
          IN  /\ TwoPowers(Len(v))
              /\ SeqSum(v) % Len(v) # 0
              /\ FloatLess(e.worst_case_score, e.average_score)
              /\ FloatLess(e.average_score, e.best_case_score)

\* a block that is a payload: an object whose 'careers' is an object of objects
IsPayload(block) ==
    /\ block.kind = "object"
    /\ block.careers.kind = "object"
    /\ \A n \in 1..Len(block.careers.entries) : block.careers.entries[n].kind = "object"

\* the vector a payload supplies for a career: for each of the eight canonical keys
\* the score given, or 5 for a key not given
SuppliedVector(scores) ==
    [k \in 1..Len(criteria_order) |->
        IF \E n \in 1..Len(scores) : scores[n].key = criteria_order[k]
        THEN scores[CHOOSE n \in 1..Len(scores) : scores[n].key = criteria_order[k]].score
        ELSE 5]

(* C7: for every structured payload, the table built from the text by      *)
(* parse_agent_response_text, read back with get_payoff_matrix, has the    *)
(* names of the payload in its order and for each the vector of the eight  *)
(* supplied scores, unchanged, with 5 for a key left out.                  *)
C7_PayloadRoundTrip ==
    (pc = "created" /\ ret.op = "get_payoff_matrix" /\ IsPayload(text.block))
        => LET entries == text.block.careers.entries
           IN  /\ ~ret.out.raised
               /\ ret.out.careers = [n \in 1..Len(entries) |-> entries[n].name]
               /\ ret.out.matrix.rows =
                      [n \in 1..Len(entries) |-> SuppliedVector(entries[n].scores)]

\* a tagged block that is there and is not a payload
Malformed(block) == block.kind # "absent" /\ ~IsPayload(block)

(* C8: parse_agent_response_text never raises on a text whose tagged block *)
(* is malformed (not JSON, or JSON of the wrong shape); it returns None or *)
(* a fallback table.                                                       *)
C8_MalformedNeverRaises ==
    (ret.op = "parse_agent_response_text" /\ Malformed(text.block))
        => ~ret.out.raised

\* a text that parse_agent_response_text handles on its fallback path
OnFallbackPath(response_text) ==
    \/ response_text.block.kind = "absent"
    \/ /\ response_text.block.kind \in {"string", "list", "object"}
       /\ response_text.block.careers.kind = "absent"
       /\ "careers" \notin Range(response_text.block.items)

(* C9: on the fallback path parse_agent_response_text returns a table only *)
(* when at least two distinct career names were matched, and None when     *)
(* none or one was; never a table of a single option.                      *)
C9_FallbackNeedsTwo ==
    (ret.op = "parse_agent_response_text" /\ OnFallbackPath(text))
        => /\ ~ret.out.raised
           /\ ret.out.result.given <=> Cardinality(CareersFound(WordsOf(text))) >= 2
           /\ ret.out.result.given => Len(ret.out.result.val.career_matrix) >= 2

(* C3: in every state of a session's table that construction,              *)
(* update_career_matrix and the UI actions (analyze with structured data   *)
(* or by the text fallback, auto-update, manual add, reset) lead to, every *)
(* option's vector is as long as the list of the criteria labels.          *)
C3_VectorsMatchLabels ==
    \A s \in Sessions :
        pc[s] = "open" => WellFormed(TableOf(s), LabelsNow(s))

\* the parties that are served: the sessions of the UI and the users of the pipeline
Parties == Sessions \cup PipelineUsers

\* what a party observes: a session the table and the labels of its own model, a
\* user of the pipeline those of the global model, which run_pipeline explains
\* (rankings and explanation are functions of the table and the labels observed)
Observed(p) ==
    LET id == IF p \in Sessions THEN p ELSE "_global_model"
    IN  <<MatrixOf(heap, models[id]), LabelsOf(heap, models[id])>>

(* C10: no mutable table is shared: in any interleaving of the operations  *)
(* of two sessions or two users of run_pipeline, a step done for one party *)
(* leaves the table, the rankings and the explanation that every other     *)
(* party observes as they were.                                            *)
C10_NoSharedTable ==
    [][\A p \in Parties : ret'.id # p => Observed(p)' = Observed(p)]_vars

\* the display labels of the eight canonical keys, as the schema of the payload
\* writes them
CanonicalLabels ==
    << <<"Salary", "Potential">>, <<"Job", "Security">>, <<"Growth", "Opportunity">>,
       <<"Work", "Life", "Balance">>, <<"Skill", "Transferability">>,
       <<"Market", "Demand">>, <<"Education", "Barrier">>, <<"Remote", "Flexibility">> >>

\* parse_agent_response_text returned a table
TableReturned ==
    /\ ret.op = "parse_agent_response_text"
    /\ ~ret.out.raised
    /\ ret.out.result.given

(* C11: whenever parse_agent_response_text returns a table, by the primary *)
(* path or by the fallback, the labels are the eight canonical keys in     *)
(* their order, each with its underscores replaced by spaces and           *)
(* title-cased, the same list on both paths, and every vector has eight    *)
(* elements.                                                               *)
C11_CanonicalLabels ==
    TableReturned =>
        LET table == ret.out.result.val
        IN  /\ Len(criteria_order) = 8
            /\ table.criteria_labels = [k \in 1..8 |-> TitleStr(criteria_order[k])]
            /\ table.criteria_labels = CanonicalLabels
            /\ \A i \in 1..Len(table.career_matrix) : Len(table.career_matrix[i].vec) = 8

\* reached: a table of two options built on the fallback path, whose labels are
\* written out in the code and not converted from the keys
C11_Witness ==
    /\ TableReturned
    /\ OnFallbackPath(text)
    /\ Len(ret.out.result.val.career_matrix) >= 2

\* the strings of the pairs a pattern of two groups matched, pair by pair
Paired(spans) ==
    [i \in 1..(2 * Len(spans)) |->
        IF i % 2 = 1 THEN <<spans[(i + 1) \div 2].head>> ELSE <<spans[i \div 2].end>>]

\* the names in the order in which extract_careers_from_text discovers them: pattern
\* by pattern, each from left to right, formatted, each once
Discovered(words) ==
    LET text_lower == LowerStr(words)
        fields == FindAllSpans(text_lower, 1, FieldWords, EndingWords)
    IN  FormatCareers(FindAllPhrases(text_lower, 1, CareerPattern1)
                          \o FindAllPhrases(text_lower, 1, CareerPattern2)
                          \o Paired(FindAllSpans(text_lower, 1, DegreeWords, BearerWords))
                          \o [n \in 1..Len(fields) |-> <<fields[n].head>>],
                      <<>>)

\* parse_agent_response_text returned a table built by the fallback
FallbackTable == TableReturned /\ OnFallbackPath(text)

(* C12: the table the fallback builds for one text never has more than 6   *)
(* options, and when more than 6 distinct names were discovered the        *)
(* options are the first 6 of them, in the order of their discovery.       *)
C12_FirstSixKept ==
    FallbackTable =>
        LET kept == Keys(ret.out.result.val.career_matrix)
            discovered == Discovered(WordsOf(text))
        IN  /\ Len(kept) <= 6
            /\ Len(discovered) > 6 => kept = SubSeq(discovered, 1, 6)

\* a career name that no key of career_defaults holds or is held by
Unmatched(career) ==
    \A k \in 1..Len(career_defaults) :
        /\ ~Contained(career_defaults[k].name, LowerStr(career))
        /\ ~Contained(LowerStr(career), career_defaults[k].name)

(* C13: on the fallback path a discovered name without a partial match in  *)
(* the built-in defaults is given the vector of eight 5s.                  *)
C13_UnmatchedGetsFives ==
    FallbackTable =>
        \A i \in 1..Len(ret.out.result.val.career_matrix) :
            Unmatched(ret.out.result.val.career_matrix[i].name)
                => ret.out.result.val.career_matrix[i].vec = <<5, 5, 5, 5, 5, 5, 5, 5>>

\* a text without a payload that mentions the roles software engineer and designer
\* and no other, 'engineer' only as part of 'software engineer'
TwoRolesMentioned(response_text) ==
    LET text_lower == LowerStr(response_text.words)
    IN  /\ response_text.block = NoBlock
        /\ Contained(<<"software", "engineer">>, text_lower)
        /\ Contained(<<"designer">>, text_lower)
        /\ CareersFound(response_text.words)
              \subseteq {<<"software", "engineer">>, <<"designer">>, <<"engineer">>}
        /\ \A i \in 1..Len(text_lower) :
              text_lower[i] = "engineer" => (i > 1 /\ text_lower[i - 1] = "software")

(* C15: for a text without a payload that mentions exactly the roles       *)
(* software engineer and designer, parse_agent_response_text returns a     *)
(* table of exactly two options, one for each role, each with the built-in *)
(* vector of eight scores of that role; 'engineer' inside 'software        *)
(* engineer' gives no option of its own.                                   *)
C15_TwoRolesTwoOptions ==
    (ret.op = "parse_agent_response_text" /\ TwoRolesMentioned(text))
        => /\ TableReturned
           /\ LET career_matrix == ret.out.result.val.career_matrix
              IN  /\ Len(career_matrix) = 2
                  /\ Range(Keys(career_matrix))
                        = {<<"Software", "Engineer">>, <<"Designer">>}
                  /\ DictGet(career_matrix, <<"Software", "Engineer">>)
                        = DictGet(career_defaults, <<"software", "engineer">>)
                  /\ DictGet(career_matrix, <<"Designer">>)
                        = DictGet(career_defaults, <<"designer">>)

\* at least one option, and every option without a score
ZeroCriteria(t) == Len(t) >= 1 /\ \A i \in 1..Len(t) : t[i].vec = <<>>

\* what the operation op of the model id comes to once its table has no option
OnNoOptions(op, id) ==
    LET u == UpdateCareerMatrix(heap, id, models[id], <<>>, None)
    IN  IF op = "get_career_rankings" THEN GetCareerRankings(u.heap, u.model)
        ELSE CalculateStrategyScores(u.heap, u.model)

(* C14: for a table whose options all have zero criteria,                  *)
(* get_career_rankings and calculate_strategy_scores complete without      *)
(* raising and report 0 for the statistics of every option, and the        *)
(* outcome differs from the outcome for a table with zero options.         *)
C14_ZeroCriteriaZeros ==
    (/\ ret.op \in {"get_career_rankings", "calculate_strategy_scores"}
     /\ ZeroCriteria(TableOf(ret.id)))
        => /\ ~ret.out.raised
           /\ ret.op = "get_career_rankings" =>
                 \A i \in 1..Len(TableOf(ret.id)) :
                     /\ ret.out.rankings[i].total_score = FloatZero
                     /\ ret.out.rankings[i].average_score = FloatZero
                     /\ ret.out.rankings[i].worst_case_score = FloatZero
                     /\ ret.out.rankings[i].best_case_score = FloatZero
           /\ ret.op = "calculate_strategy_scores" =>
                 \A i \in 1..Len(TableOf(ret.id)) : ret.out.worst_case_payoffs[i] = 0
           /\ ret.out # OnNoOptions(ret.op, ret.id)

\* the response with the key 'criteria_weights' taken out of its payload
Unweighted(response_text) ==
    [response_text EXCEPT
        !.block = [@ EXCEPT !.items = SelectSeq(@, LAMBDA w : w # "criteria_weights"),
                            !.weights = <<>>]]

\* the payload of the response has weights
WeightsGiven ==
    /\ IsPayload(text.block)
    /\ "criteria_weights" \in Range(text.block.items)
    /\ text.block.weights # <<>>

\* what a read of a model comes to
ReadOf(op, h, model) ==
    CASE op = "get_payoff_matrix" ->
            [raised |-> FALSE, matrix |-> GetPayoffMatrix(h, model).matrix,
             careers |-> GetPayoffMatrix(h, model).careers]
      [] op = "calculate_strategy_scores" -> CalculateStrategyScores(h, model)
      [] op = "get_career_rankings" -> GetCareerRankings(h, model)
      [] op = "explain_game_theory_choice" -> ExplainGameTheoryChoice(h, model)

(* C16: a payload with 'criteria_weights' gives what the payload with the  *)
(* same 'careers' and no weights gives: the same table from                *)
(* parse_agent_response_text and from format_career_matrix_for_game_theory,*)
(* and, read from the model created from it, the same table, the same      *)
(* statistics of every option and the same minimax selection.              *)
C16_WeightsIgnored ==
    WeightsGiven =>
        /\ ret.op = "parse_agent_response_text"
              => ret.out \in ParseAgentResponseText(Unweighted(text))
        /\ FormatCareerMatrixForGameTheory(text.block)
              = FormatCareerMatrixForGameTheory(Unweighted(text).block)
        /\ (/\ pc = "created"
            /\ ret.op \in {"get_payoff_matrix", "calculate_strategy_scores",
                           "get_career_rankings", "explain_game_theory_choice"})
              => \E c \in CreateModelFromAgentData(InitialHeap, ret.id,
                              [career_matrix |-> None, criteria_labels |-> None,
                               response |-> Unweighted(text)]) :
                     ret.out = ReadOf(ret.op, c.heap, c.model)

\* reached: the selection read from the model of a weighted payload of two careers,
\* the second of which is selected
C16_Witness ==
    /\ WeightsGiven
    /\ pc = "created"
    /\ ret.op = "calculate_strategy_scores"
    /\ ~ret.out.raised
    /\ Len(ret.out.worst_case_payoffs) = 2
    /\ ret.out.best_strategy_idx = 1

\* the operations of a model that only read it
ReadOnlyOps ==
    {"get_payoff_matrix", "calculate_strategy_scores", "get_career_rankings",
     "explain_game_theory_choice"}

(* C17: get_payoff_matrix, calculate_strategy_scores, get_career_rankings  *)
(* and explain_game_theory_choice leave the option map (names, order,      *)
(* vectors) and the labels of every model as they were, and the selection  *)
(* computed after an explanation is rendered is the one computed before.   *)
C17_ReadsChangeNothing ==
    [][ret'.op \in ReadOnlyOps
          => /\ heap' = heap
             /\ models' = models
             /\ \A id \in ModelIds :
                   /\ MatrixOf(heap', models'[id]) = MatrixOf(heap, models[id])
                   /\ LabelsOf(heap', models'[id]) = LabelsOf(heap, models[id])
             /\ ret'.op = "explain_game_theory_choice"
                   => CalculateStrategyScores(heap', models'[ret'.id])
                          = CalculateStrategyScores(heap, models[ret'.id])]_vars

\* reached: an explanation rendered of a table of two options that replaced the
\* table the model was constructed with
C17_Witness ==
    /\ ret.op = "explain_game_theory_choice"
    /\ ~ret.out.raised
    /\ models[ret.id].career_matrix = OwnMatrixRef(ret.id)
    /\ Len(TableOf(ret.id)) = 2
    /\ LabelsNow(ret.id) = TwoLabels

(* C18: update_career_matrix called twice in a row with the same options   *)
(* and criteria leaves the model as the first call left it, and            *)
(* calculate_strategy_scores and get_career_rankings return after the      *)
(* second call what they return after the first.                           *)
C18_UpdateIdempotent ==
    [][(/\ ret.op = "update_career_matrix"
        /\ ret'.op = "update_career_matrix"
        /\ ret'.id = ret.id
        /\ ret'.career_matrix = ret.career_matrix
        /\ ret'.criteria_labels = ret.criteria_labels)
          => /\ heap' = heap
             /\ models' = models
             /\ CalculateStrategyScores(heap', models'[ret'.id])
                   = CalculateStrategyScores(heap, models[ret.id])
             /\ GetCareerRankings(heap', models'[ret'.id])
                   = GetCareerRankings(heap, models[ret.id])]_vars

\* reached: the second of two equal replacements by a table of two options with
\* two labels
C18_Witness ==
    /\ ret.op = "update_career_matrix"
    /\ ret.again
    /\ Len(TableOf(ret.id)) = 2
    /\ Rectangular(TableOf(ret.id))
    /\ ret.criteria_labels = Some(TwoLabels)

\* exactly one option, of at least one criterion
SingleOption(t) == Len(t) = 1 /\ Len(t[1].vec) >= 1

(* C19: for a table of exactly one option and at least one criterion       *)
(* calculate_strategy_scores selects that option, and the worst-case score *)
(* reported is the least element of the option's vector.                   *)
C19_SingleOptionSelected ==
    (ret.op = "calculate_strategy_scores" /\ SingleOption(TableOf(ret.id)))
        => /\ ~ret.out.raised
           /\ ret.out.best_strategy_idx = 0
           /\ Len(ret.out.worst_case_payoffs) = 1
           /\ IsMinOf(ret.out.worst_case_payoffs[1], TableOf(ret.id)[1].vec)

\* reached: one option whose least score is not the first of its vector
C19_Witness ==
    /\ ret.op = "calculate_strategy_scores"
    /\ SingleOption(TableOf(ret.id))
    /\ ~ret.out.raised
    /\ ret.out.worst_case_payoffs[1] < TableOf(ret.id)[1].vec[1]

\* the six named careers with five scores each, and the five labels
SixByFive(t, labels) ==
    /\ Len(t) = 6
    /\ \A i \in 1..6 : t[i].name # <<>> /\ Len(t[i].vec) = 5
    /\ \A i, j \in 1..6 : i # j => t[i].name # t[j].name
    /\ Len(labels) = 5

\* a constructor's argument that supplies nothing: omitted, or without an element
Without(arg) == ~arg.given \/ arg.val = <<>>

C21_RankingsCurrent ==
    ret.op = "get_career_rankings" =>
        /\ Rectangular(TableOf(ret.id)) => ~ret.out.raised
        /\ ~ret.out.raised =>
              /\ Len(ret.out.rankings) = Len(TableOf(ret.id))
              /\ \A i \in 1..Len(TableOf(ret.id)) :
                    /\ ret.out.rankings[i].name = TableOf(ret.id)[i].name
                    /\ ret.out.rankings[i].payoff_vector = TableOf(ret.id)[i].vec
                    /\ ret.out.rankings[i].total_score
                          = FloatOfInt(SeqSum(TableOf(ret.id)[i].vec))

\* reached: the rankings of a table of two options that is not the one the module
\* starts with
C21_Witness ==
    /\ ret.op = "get_career_rankings"
    /\ ~ret.out.raised
    /\ models[ret.id].career_matrix = OwnMatrixRef(ret.id)
    /\ Len(ret.out.rankings) = 2
    /\ ret.out.rankings[2].name = <<"Consultant">>

\* the tagged block of the text parses to an object with a 'careers' mapping
HoldsCareersMapping(block) == block.kind = "object" /\ block.careers.kind = "object"

(* C22: the keyword fallback runs only when the primary path produced no   *)
(* table: whenever the text holds a tagged block that parses to an object  *)
(* with a 'careers' mapping, parse_agent_response_text does not raise, and *)
(* a table it returns has exactly the options of that mapping, in its      *)
(* order, and none derived from the role keywords of the text around the   *)
(* block; for a mapping whose values are all objects it returns the table. *)
C22_PrimaryExcludesFallback ==
    (ret.op = "parse_agent_response_text" /\ HoldsCareersMapping(text.block))
        => /\ ~ret.out.raised
           /\ IsPayload(text.block) => ret.out.result.given
           /\ ret.out.result.given =>
                 Keys(ret.out.result.val.career_matrix)
                     = [n \in 1..Len(text.block.careers.entries) |->
                           text.block.careers.entries[n].name]

\* reached: a table of the one career of a payload, from a text that names another
\* role before the block
C22_Witness ==
    /\ ret.op = "parse_agent_response_text"
    /\ text.words = <<"Designer">>
    /\ IsPayload(text.block)
    /\ ret.out.result.given
    /\ Keys(ret.out.result.val.career_matrix) = << <<"AI", "Engineer">> >>

(* C23: after any sequence of the actions of a session (analyze with       *)
(* structured data or with the text fallback, auto-update, manual add,     *)
(* reset) the table of the session has at least one option, so that the    *)
(* rankings the dashboard asks for are never those of an empty table; an   *)
(* agent response with the payload {"careers": {}} does not empty it.      *)
C23_SessionTableNonEmpty ==
    \A s \in Sessions :
        /\ pc[s] = "open" => Len(TableOf(s)) >= 1
        /\ (ret.op = "get_career_rankings" /\ ret.id = s) => Len(TableOf(s)) >= 1

\* the model of a session as the constructor without arguments leaves it
StartsFromDefaults(s) ==
    /\ TableOf(s) = DEFAULT_CAREER_MATRIX
    /\ LabelsNow(s) = DEFAULT_CRITERIA_LABELS

(* C24: the module's DEFAULT_CAREER_MATRIX and DEFAULT_CRITERIA_LABELS,    *)
(* which a default-constructed model refers to and does not copy, are      *)
(* modified by no sequence of the actions of a session (update, manual     *)
(* add, auto-update, reset), so that a new session and a reset always      *)
(* start from the original table of six careers and five criteria.         *)
C24_DefaultsNeverModified ==
    /\ heap[DefaultMatrixRef] = DEFAULT_CAREER_MATRIX
    /\ heap[DefaultLabelsRef] = DEFAULT_CRITERIA_LABELS
    /\ ret.op \in {"main", "reset_matrix"} => StartsFromDefaults(ret.id)

\* reached: a manual add to a model that held the module's table: the table of the
\* session has the six careers and the new one, the module's table the six
C24_Witness ==
    /\ ret.op = "add_manual_career"
    /\ Len(TableOf(ret.id)) = 7
    /\ SubSeq(TableOf(ret.id), 1, 6) = DEFAULT_CAREER_MATRIX
    /\ Len(heap[DefaultMatrixRef]) = 6

(* C25: for every agent_result create_model_from_agent_data returns,       *)
(* without raising, a model that is well-formed: it has at least one       *)
(* option, and the vector of every option is as long as the list of the    *)
(* criteria labels of the model.                                           *)
C25_CreatedModelWellFormed ==
    ret.op = "create_model_from_agent_data" =>
        /\ Len(TableOf(ret.id)) >= 1
        /\ WellFormed(TableOf(ret.id), LabelsNow(ret.id))

\* the names extract_careers_from_text keeps when the set of the matches is iterated
\* in the given order: the formatted names, cut to the first six
KeptIn(order) ==
    LET formatted_careers == FormatCareers(order, <<>>)
    IN  SubSeq(formatted_careers, 1,
               IF Len(formatted_careers) < 6 THEN Len(formatted_careers) ELSE 6)

(* C26: for a text handled by the fallback, the table built (its options   *)
(* and their insertion order, and with them the option minimax selects,    *)
(* ties included) does not depend on the order in which the set of the     *)
(* matched names is iterated: every order of that set gives the options    *)
(* of the table returned, in the same order.                               *)
C26_SetOrderIrrelevant ==
    FallbackTable =>
        \A order \in Arrangements(CareersFound(WordsOf(text))) :
            KeptIn(order) = Keys(ret.out.result.val.career_matrix)

\* the sequence without its k-th element
RemoveAt(items, k) == SubSeq(items, 1, k - 1) \o SubSeq(items, k + 1, Len(items))

\* (a faulty variant of SortedCareers: an ascending sort turned round, which puts the
\* last of the entries of equal score first)
RECURSIVE SortedCareersTurned(_)
SortedCareersTurned(rankings) ==
    IF rankings = <<>> THEN <<>>
    ELSE LET k == CHOOSE k \in 1..Len(rankings) :
                    /\ \A j \in 1..Len(rankings) :
                          FloatLeq(rankings[j].worst_case_score,
                                   rankings[k].worst_case_score)
                    /\ \A j \in (k + 1)..Len(rankings) :
                          FloatLess(rankings[j].worst_case_score,
                                    rankings[k].worst_case_score)
         IN  <<rankings[k]>> \o SortedCareersTurned(RemoveAt(rankings, k))

\* sorted_careers of create_professional_career_rankings and generate_pdf_report:
\* sorted(rankings.items(), key = worst_case_score, reverse=True).  The sort is
\* stable, with reverse too: entries of equal score keep the order of the dict
RECURSIVE SortedCareers(_)
SortedCareers(rankings) ==
    IF rankings = <<>> THEN <<>>
    ELSE LET k == CHOOSE k \in 1..Len(rankings) :
                    /\ \A j \in 1..Len(rankings) :
                          FloatLeq(rankings[j].worst_case_score,
                                   rankings[k].worst_case_score)
                    /\ \A j \in 1..(k - 1) :
                          FloatLess(rankings[j].worst_case_score,
                                    rankings[k].worst_case_score)
         IN  <<rankings[k]>> \o SortedCareers(RemoveAt(rankings, k))

(* C27: for every non-empty well-formed table the career ranked first by   *)
(* the UI and the PDF report, the first of the rankings sorted by          *)
(* worst_case_score in descending order, is the option that                *)
(* calculate_strategy_scores selects and explain_game_theory_choice        *)
(* recommends, also when several options tie on the greatest worst case.   *)
C27_FirstRankedIsSelected ==
    (ret.op = "get_career_rankings" /\ ~ret.out.raised) =>
        LET sorted_careers == SortedCareers(ret.out.rankings)
            cs == CalculateStrategyScores(heap, models[ret.id])
            explanation == ExplainGameTheoryChoice(heap, models[ret.id])
        IN  /\ ~cs.raised /\ ~explanation.raised
            /\ sorted_careers[1].name = TableOf(ret.id)[cs.best_strategy_idx + 1].name
            /\ sorted_careers[1].name = explanation.best_career

\* reached: the rankings of two options of the same worst case, the second with the
\* greater total
C27_Witness ==
    /\ ret.op = "get_career_rankings"
    /\ ~ret.out.raised
    /\ Len(ret.out.rankings) = 2
    /\ ret.out.rankings[1].worst_case_score = ret.out.rankings[2].worst_case_score
    /\ FloatLess(ret.out.rankings[1].total_score, ret.out.rankings[2].total_score)

(* C28: the two conversions of the structured payload agree: for every     *)
(* parsed payload with a 'careers' mapping, format_career_matrix_for_      *)
(* game_theory of the agent module and the primary path of                 *)
(* parse_agent_response_text give the same options (names, order, vectors  *)
(* of eight scores with 5 for a key left out) and the same list of labels; *)
(* for a mapping with a value that is not an object neither gives a table. *)
C28_ConversionsAgree ==
    (ret.op = "parse_agent_response_text" /\ HoldsCareersMapping(text.block))
        => LET formatted == FormatCareerMatrixForGameTheory(text.block)
           IN  IF IsPayload(text.block)
               THEN /\ ~formatted.raised /\ ~ret.out.raised
                    /\ formatted.result.given /\ ret.out.result.given
                    /\ formatted.result.val.career_matrix
                           = ret.out.result.val.career_matrix
                    /\ formatted.result.val.criteria_labels
                           = ret.out.result.val.criteria_labels
               ELSE /\ formatted.raised \/ ~formatted.result.given
                    /\ ~ret.out.raised /\ ~ret.out.result.given

\* reached: the table of a payload of two careers, one scored on its first key and
\* the other on none
C28_Witness ==
    /\ ret.op = "parse_agent_response_text"
    /\ IsPayload(text.block)
    /\ ret.out.result.given
    /\ Len(ret.out.result.val.career_matrix) = 2
    /\ ret.out.result.val.career_matrix[1].vec = <<4, 5, 5, 5, 5, 5, 5, 5>>
    /\ ret.out.result.val.career_matrix[2].vec = <<5, 5, 5, 5, 5, 5, 5, 5>>

\* the table and the labels of a default-constructed model after
\* update_career_matrix(career_matrix, criteria_labels)
DefaultThenUpdate(career_matrix, criteria_labels) ==
    LET c == CareerGameModelInit(InitialHeap, M, None, None)
        u == UpdateCareerMatrix(c.heap, M, c.model, career_matrix, criteria_labels)
    IN  <<MatrixOf(u.heap, u.model), LabelsOf(u.heap, u.model)>>

(* C29: construction and replacement agree on every input: for every map   *)
(* of options, the empty one included, and every criteria argument (a      *)
(* list, the empty list, or omitted), CareerGameModel(options, criteria)   *)
(* has the table and the labels that a default-constructed model has after *)
(* update_career_matrix(options, criteria).                                *)
C29_ConstructionIsUpdate ==
    (ret.op = "__init__" /\ ret.career_matrix.given) =>
        <<TableOf(ret.id), LabelsNow(ret.id)>>
            = DefaultThenUpdate(ret.career_matrix.val, ret.criteria_labels)

(* C30: the session store is a map from user to data: load_session(u)      *)
(* returns the data of the most recent save_session(u, d), a save for one  *)
(* user changes what load_session returns for no other user, and for a     *)
(* user never saved load_session returns an empty mapping.  As a property  *)
(* of the steps: at first every user loads the empty mapping; after a save *)
(* the saved user loads the data saved and every other user what it loaded *)
(* before; a load returns what the table holds for the user and leaves the *)
(* table as it is.                                                         *)
C30_StoreIsPerUserMap ==
    /\ \A u \in UserIds : LoadSession(store, u) = PyDict(<<>>)
    /\ [][/\ ret'.op = "save_session" =>
                \A u \in UserIds :
                    LoadSession(store', u)
                        = IF u = ret'.id THEN ret'.session_data
                          ELSE LoadSession(store, u)
          /\ ret'.op = "load_session" =>
                /\ store' = store
                /\ ret'.out = LoadSession(store, ret'.id)]_vars

\* reached: the default user loads the history saved for it while another user has
\* the data of the pipeline, and a third has none
C30_Witness ==
    /\ ret.op = "load_session"
    /\ ret.id = DefaultUser
    /\ ret.out \in UiSessionData
    /\ "user1" \in DOMAIN store
    /\ LoadSession(store, "user1") # ret.out
    /\ "user2" \notin DOMAIN store

====
